---------------------------- MODULE Spec2Model ----------------------------
(***************************************************************************)
(* A model of the cgit terminal dashboard (corpeningc/cgit).               *)
(*                                                                         *)
(*   - StatusModel, the four-panel dashboard  (src/unnamed/part_004)       *)
(*   - FilePickerModel, the two-panel picker  (src/internal/ui/            *)
(*     conflict_resolver.go, second package block, lines 507-1175)         *)
(*   - the fuzzy filter performSearch / fuzzyMatch                         *)
(*   - the gateway's GetFileStatuses / UnstageFile                         *)
(*     (src/internal/git/operations.go)                                    *)
(*                                                                         *)
(* Strings that the code inspects character by character (paths, branch    *)
(* names, queries, text-input values) are sequences of one-character       *)
(* strings.  Indices into Go slices are kept 0-based, as in the code; the  *)
(* element of a list l at Go index i is l[i+1].                            *)
(*                                                                         *)
(* A bubbletea model is a value: Update(m, msg) returns the new model and  *)
(* the commands it dispatches.  The runtime runs every command in its own  *)
(* goroutine and feeds the message it returns back into Update, in no      *)
(* particular order; a nil message is dropped by the runtime.              *)
(***************************************************************************)
EXTENDS Integers, Sequences, FiniteSets, Bags, TLC

VARIABLES
    sm,        \* the StatusModel value held by the event loop
    smCmds,    \* bag of dispatched StatusModel commands not yet run
    smMsgs,    \* bag of messages produced by commands, not yet delivered
    crashed,   \* TRUE once Update has panicked (nil dereference)
    keys,      \* number of keys pressed so far
    fp,        \* the FilePickerModel value held by the event loop
    fpHeap,    \* the Go maps the picker's selection fields point to
    fpCmds,    \* bag of dispatched FilePickerModel commands not yet run
    fpMsgs,    \* bag of FilePickerModel messages not yet delivered
    items,     \* the filter on its own: the list of item strings
    query,     \* the filter on its own: the query
    found,     \* the filter on its own: the result of performSearch
    lastKey,   \* the key of the latest key press, where a run records it
    bs         \* the BranchSwitcherModel value held by the event loop

smVars == <<sm, smCmds, smMsgs>>
fpVars == <<fp, fpHeap, fpCmds, fpMsgs>>
flVars == <<items, query, found>>
vars == <<sm, smCmds, smMsgs, crashed, keys, fp, fpHeap, fpCmds, fpMsgs,
          items, query, found, lastKey, bs>>

-----------------------------------------------------------------------------
(* Bounds of the model *)

\* longest value typed into a text input (the code's CharLimit is 100 / 500)
MaxInput == 1
\* most commands and messages in flight at once
MaxInFlight == 2
\* most key presses of a run that records its latest key
MaxTracedKeys == 2
\* most keys pressed in one run of the dashboard
MaxKeys == 4
\* the filter on its own: most items in the list, longest item, longest query
MaxItems == 2
MaxItemLen == 2
MaxQueryLen == 2

-----------------------------------------------------------------------------
(* Generic helpers *)

Max(a, b) == IF a > b THEN a ELSE b

Min(a, b) == IF a < b THEN a ELSE b

\* the 0-based indices 0..n-1 as an increasing sequence
Indices(n) == [i \in 1..n |-> i - 1]

\* Go's append(s[:i], s[i+1:]...) for a 0-based index i
RemoveAt(s, i) == SubSeq(s, 1, i) \o SubSeq(s, i + 2, Len(s))

\* all sequences over S of length at most n
SeqsUpTo(S, n) == UNION {[1..k -> S] : k \in 0..n}

-----------------------------------------------------------------------------
(* strings.ToLower and fuzzyMatch *)

UpperChars == <<"A","B","C","D","E","F","G","H","I","J","K","L","M",
                "N","O","P","Q","R","S","T","U","V","W","X","Y","Z">>

LowerChars == <<"a","b","c","d","e","f","g","h","i","j","k","l","m",
                "n","o","p","q","r","s","t","u","v","w","x","y","z">>

ToLowerChar(c) ==
    IF \E i \in 1..Len(UpperChars) : UpperChars[i] = c
    THEN LowerChars[CHOOSE i \in 1..Len(UpperChars) : UpperChars[i] = c]
    ELSE c

ToLower(s) == [i \in 1..Len(s) |-> ToLowerChar(s[i])]

\* The inner loop of fuzzyMatch: scanning text from the 1-based position ti,
\* the position just after the first occurrence of c, or 0 when there is none.
RECURSIVE ScanFor(_, _, _)
ScanFor(text, ti, c) ==
    IF ti > Len(text) THEN 0
    ELSE IF text[ti] = c THEN ti + 1
    ELSE ScanFor(text, ti + 1, c)

RECURSIVE MatchFrom(_, _, _, _)
MatchFrom(text, ti, q, qi) ==
    IF qi > Len(q) THEN TRUE
    ELSE LET next == ScanFor(text, ti, q[qi])
         IN  IF next = 0 THEN FALSE ELSE MatchFrom(text, next, q, qi + 1)

fuzzyMatch_dropFirst(text, q) ==
    IF q = <<>> THEN TRUE ELSE MatchFrom(text, 2, q, 1)

fuzzyMatch(text, q) ==
    IF q = <<>> THEN TRUE ELSE MatchFrom(text, 1, q, 1)

\* The loop of performSearch over a list of strings: the 0-based indices of
\* the items whose lower-cased text matches the lower-cased query.
FilterItems_noLower(list, q) ==
    SelectSeq(Indices(Len(list)),
              LAMBDA i : fuzzyMatch(list[i + 1], q))

FilterItems(list, q) ==
    SelectSeq(Indices(Len(list)),
              LAMBDA i : fuzzyMatch(ToLower(list[i + 1]), ToLower(q)))

\* performSearch on a list of strings, as (filteredIndices, searchSelected)
performSearch_noEmptyCase(list, q) ==
    [filteredIndices |-> FilterItems(list, q), searchSelected |-> 0]

performSearch(list, q) ==
    IF q = <<>>
    THEN [filteredIndices |-> <<>>, searchSelected |-> 0]
    ELSE [filteredIndices |-> FilterItems(list, q), searchSelected |-> 0]

-----------------------------------------------------------------------------
(* The repository gateway (src/internal/git/operations.go) *)

\* One line of `git status --porcelain=v1`: index column, work-tree column,
\* a blank, then the path.
Line(x, y, path) == <<x, y, " ">> \o path

\* The outputs of `git status --porcelain=v1` the modelled working trees give.
PorcelainOutputs ==
    { << Line(" ", "M", <<"a">>), Line("?", "?", <<"c">>) >>,
      << Line("M", "M", <<"a">>) >> }

\* The branch and stash lists of the modelled repository.
BranchesOut ==
    << [Name |-> <<"a", "c">>, IsRemote |-> FALSE, IsCurrent |-> TRUE],
       [Name |-> <<"d">>, IsRemote |-> FALSE, IsCurrent |-> FALSE] >>

StashesOut ==
    << [Index |-> 0, Message |-> <<"s">>, Branch |-> <<"d">>] >>

\* strings.TrimSpace on the blank
RECURSIVE TrimLeft(_)
TrimLeft(p) == IF p # <<>> /\ Head(p) = " " THEN TrimLeft(Tail(p)) ELSE p

RECURSIVE TrimRight(_)
TrimRight(p) ==
    IF p # <<>> /\ p[Len(p)] = " " THEN TrimRight(SubSeq(p, 1, Len(p) - 1)) ELSE p

TrimSpace(p) == TrimRight(TrimLeft(p))

\* Removal of the quotes git puts around special file names (for a path that
\* is one quote character alone the Go slice expression panics; git prints
\* no such path)
Unquote(p) ==
    IF Len(p) >= 2 /\ p[1] = "\"" /\ p[Len(p)] = "\""
    THEN SubSeq(p, 2, Len(p) - 1)
    ELSE p

FileStatus(path, status, staged) ==
    [Path |-> path, Status |-> status, Staged |-> staged, WorkTree |-> ~staged]

\* The loop body of GetFileStatuses for one line: what the line adds to the
\* staged list and to the unstaged list.
StagedOfLine(line) ==
    IF Len(line) < 3 THEN <<>>
    ELSE IF line[1] # " " /\ line[1] # "?"
         THEN << FileStatus(Unquote(TrimSpace(SubSeq(line, 4, Len(line)))), line[1], TRUE) >>
         ELSE <<>>

UnstagedOfLine(line) ==
    IF Len(line) < 3 THEN <<>>
    ELSE IF line[2] # " "
         THEN << FileStatus(Unquote(TrimSpace(SubSeq(line, 4, Len(line)))), line[2], FALSE) >>
         ELSE <<>>

\* The loop of GetFileStatuses over the lines from the 1-based line i on
RECURSIVE StagedFrom(_, _)
StagedFrom(out, i) ==
    IF i > Len(out) THEN <<>> ELSE StagedOfLine(out[i]) \o StagedFrom(out, i + 1)

RECURSIVE UnstagedFrom(_, _)
UnstagedFrom(out, i) ==
    IF i > Len(out) THEN <<>> ELSE UnstagedOfLine(out[i]) \o UnstagedFrom(out, i + 1)

\* GetFileStatuses on a porcelain output: (stagedFiles, unstagedFiles)
GetFileStatuses(out) ==
    [staged   |-> StagedFrom(out, 1),
     unstaged |-> UnstagedFrom(out, 1)]

\* A *RepoStatus.  isNil marks the nil pointer; its lists are then never read
\* by code that checks for nil first.
NilStatus ==
    [isNil |-> TRUE, StagedFiles |-> <<>>, UnstagedFiles |-> <<>>,
     Branches |-> <<>>, Stashes |-> <<>>]

\* GetRepositoryStatus when every git call succeeds
GetRepositoryStatus(out) ==
    [isNil |-> FALSE,
     StagedFiles |-> GetFileStatuses(out).staged,
     UnstagedFiles |-> GetFileStatuses(out).unstaged,
     Branches |-> BranchesOut,
     Stashes |-> StashesOut]

\* The snapshots a status refresh can deliver
Snapshots == {GetRepositoryStatus(out) : out \in PorcelainOutputs}

\* UnstageFile: the error it returns ("" is nil).  gitOk tells whether the
\* `git restore --staged` it runs succeeds.
UnstageFile(status, gitOk) ==
    IF status = "?" THEN "cannot unstage untracked file"
    ELSE IF gitOk THEN "" ELSE "unstage file failed"

-----------------------------------------------------------------------------
(* StatusModel (src/unnamed/part_004): the model value, commands, messages *)

\* width, height and the diff viewport are read by View and by the scroll
\* keys of the diff view only; they are left out, with the WindowSizeMsg
\* case and the keys ctrl+d / ctrl+u that do nothing but set them.  The
\* alternative spellings of a key (left, right, ctrl+c, space) run the same
\* case as the key modelled; down and up are cases of UpdateKey, for a text
\* input takes the letters j and k as text and the arrow keys not.

Panels == <<"UnstagedPanel", "StagedPanel", "BranchesPanel", "StashesPanel">>

\* diffContent / the payload of a diffMsg: what the text was built from
NoDiff == [kind |-> "", path |-> <<>>, staged |-> FALSE]

Diff(kind, path, staged) == [kind |-> kind, path |-> path, staged |-> staged]

\* NewStatusModel
NewStatusModel ==
    [repoStatus      |-> NilStatus,
     currentPanel    |-> "UnstagedPanel",
     selectedIndex   |-> 0,
     showDiff        |-> FALSE,
     diffContent     |-> NoDiff,
     commitInput     |-> <<>>,
     showCommit      |-> FALSE,
     quitting        |-> FALSE,
     message         |-> "",
     isLoading       |-> FALSE,
     loadingMsg      |-> "",
     showSearch      |-> FALSE,
     searchInput     |-> <<>>,
     searchQuery     |-> <<>>,
     filteredIndices |-> <<>>,
     searchSelected  |-> 0]

\* A message: one record shape for every message type
Msg(type) ==
    [type |-> type, status |-> NilStatus, path |-> <<>>, staged |-> FALSE,
     text |-> "", diff |-> NoDiff]

KeyMsg(key) == [Msg("KeyMsg") EXCEPT !.text = key]

statusMsg(status) == [Msg("statusMsg") EXCEPT !.status = status]

diffMsg(d) == [Msg("diffMsg") EXCEPT !.diff = d]

refreshMsg == Msg("refreshMsg")

loadingMsg(text) == [Msg("loadingMsg") EXCEPT !.text = text]

errorMsg(text) == [Msg("error") EXCEPT !.text = text]

stringMsg(text) == [Msg("string") EXCEPT !.text = text]

\* updateFileStatus
updateFileStatus(file, toStaged) ==
    [Msg("fileStatusUpdateMsg") EXCEPT !.path = file.Path, !.staged = toStaged]

\* A dispatched command: a method value or closure over a copy of the model.
\* The copy shares the *RepoStatus with the event loop: while live is TRUE the
\* command reads the status the loop currently holds; once the loop has
\* replaced its pointer, rs is the last value of the status the command kept.
\* Fields a command never reads are left at their zero values.
Cmd(kind) ==
    [kind |-> kind, panel |-> "UnstagedPanel", sel |-> 0, filt |-> <<>>,
     ssel |-> 0, live |-> FALSE, rs |-> NilStatus, arg |-> <<>>]

\* m.stageFile, m.unstageFile, m.discardChanges, m.showFileDiff, m.deleteStash
CursorCmd(kind, m) ==
    [Cmd(kind) EXCEPT !.panel = m.currentPanel, !.sel = m.selectedIndex,
                      !.live = ~m.repoStatus.isNil]

\* m.stageFileFromSearch, m.unstageFileFromSearch
SearchCmd(kind, m) ==
    [Cmd(kind) EXCEPT !.panel = m.currentPanel, !.filt = m.filteredIndices,
                      !.ssel = m.searchSelected, !.live = ~m.repoStatus.isNil]

\* m.performCommit(message), m.switchBranch(name)
ArgCmd(kind, arg) == [Cmd(kind) EXCEPT !.arg = arg]

\* What Update returns: the model, the commands, and whether it panicked
Ret(m, cmds) == [m |-> m, cmds |-> cmds, panic |-> FALSE]

Panic(m) == [m |-> m, cmds |-> <<>>, panic |-> TRUE]

-----------------------------------------------------------------------------
(* StatusModel helpers *)

getCurrentFileCount(m) ==
    IF m.repoStatus.isNil THEN 0
    ELSE CASE m.currentPanel = "UnstagedPanel" -> Len(m.repoStatus.UnstagedFiles)
           [] m.currentPanel = "StagedPanel"   -> Len(m.repoStatus.StagedFiles)
           [] m.currentPanel = "BranchesPanel" -> Len(m.repoStatus.Branches)
           [] m.currentPanel = "StashesPanel"  -> Len(m.repoStatus.Stashes)
           [] OTHER -> 0

moveDown(m) ==
    LET count == getCurrentFileCount(m)
    IN  IF count > 0
        THEN [m EXCEPT !.selectedIndex = (m.selectedIndex + 1) % count]
        ELSE m

moveUp(m) ==
    LET count == getCurrentFileCount(m)
    IN  IF count > 0
        THEN [m EXCEPT !.selectedIndex = (m.selectedIndex - 1 + count) % count]
        ELSE m

showMessage(m, text) == [m EXCEPT !.message = text]

Paths(files) == [i \in 1..Len(files) |-> files[i].Path]

Names(branches) == [i \in 1..Len(branches) |-> branches[i].Name]

\* performSearch leaving the selected result where it was
smPerformSearch_keepSelected(m) ==
    IF m.searchQuery = <<>>
    THEN Ret([m EXCEPT !.filteredIndices = <<>>], <<>>)
    ELSE IF m.repoStatus.isNil THEN Panic(m)
    ELSE Ret([m EXCEPT !.filteredIndices =
                          performSearch(Paths(m.repoStatus.UnstagedFiles),
                                        m.searchQuery).filteredIndices], <<>>)

\* StatusModel.performSearch; it reads m.repoStatus without a nil check once
\* the query is not empty.
smPerformSearch(m) ==
    IF m.searchQuery = <<>>
    THEN Ret([m EXCEPT !.filteredIndices = <<>>, !.searchSelected = 0], <<>>)
    ELSE IF m.repoStatus.isNil THEN Panic(m)
    ELSE LET q == m.searchQuery
             rs == m.repoStatus
             filt ==
               CASE m.currentPanel = "UnstagedPanel" ->
                      performSearch(Paths(rs.UnstagedFiles), q).filteredIndices
                 [] m.currentPanel = "StagedPanel" ->
                      performSearch(Paths(rs.StagedFiles), q).filteredIndices
                 [] m.currentPanel = "BranchesPanel" ->
                      performSearch(Names(rs.Branches), q).filteredIndices
                 [] m.currentPanel = "StashesPanel" ->
                      SelectSeq(Indices(Len(rs.Stashes)),
                        LAMBDA i :
                          \/ fuzzyMatch(ToLower(rs.Stashes[i + 1].Message), ToLower(q))
                          \/ fuzzyMatch(ToLower(rs.Stashes[i + 1].Branch), ToLower(q)))
                 [] OTHER -> <<>>
         IN  Ret([m EXCEPT !.filteredIndices = filt, !.searchSelected = 0], <<>>)

\* The first 0-based index of path in files, or -1
RECURSIVE IndexOfPath(_, _, _)
IndexOfPath(files, path, i) ==
    IF i >= Len(files) THEN -1
    ELSE IF files[i + 1].Path = path THEN i
    ELSE IndexOfPath(files, path, i + 1)

\* the move of a file that leaves its Staged and WorkTree flags as they were
MoveFile_keepFlags(rs, sel, path, staged) ==
    IF rs.isNil THEN [rs |-> rs, sel |-> sel]
    ELSE LET from == IF staged THEN rs.UnstagedFiles ELSE rs.StagedFiles
             to == IF staged THEN rs.StagedFiles ELSE rs.UnstagedFiles
             i == IndexOfPath(from, path, 0)
         IN  IF i < 0 THEN [rs |-> rs, sel |-> sel]
             ELSE LET left == RemoveAt(from, i)
                      grown == Append(to, from[i + 1])
                  IN  [rs |-> IF staged
                              THEN [rs EXCEPT !.UnstagedFiles = left, !.StagedFiles = grown]
                              ELSE [rs EXCEPT !.StagedFiles = left, !.UnstagedFiles = grown],
                       sel |-> IF sel >= Len(left) THEN Max(0, Len(left) - 1) ELSE sel]

\* handleFileStatusUpdate on the status and the cursor: [rs, sel]
MoveFile(rs, sel, path, staged) ==
    IF rs.isNil THEN [rs |-> rs, sel |-> sel]
    ELSE IF staged
    THEN LET i == IndexOfPath(rs.UnstagedFiles, path, 0)
         IN  IF i < 0 THEN [rs |-> rs, sel |-> sel]
             ELSE LET file == rs.UnstagedFiles[i + 1]
                      un == RemoveAt(rs.UnstagedFiles, i)
                      st == Append(rs.StagedFiles,
                                   [file EXCEPT !.Staged = TRUE, !.WorkTree = FALSE])
                  IN  [rs |-> [rs EXCEPT !.UnstagedFiles = un, !.StagedFiles = st],
                       sel |-> IF sel >= Len(un) THEN Max(0, Len(un) - 1) ELSE sel]
    ELSE LET i == IndexOfPath(rs.StagedFiles, path, 0)
         IN  IF i < 0 THEN [rs |-> rs, sel |-> sel]
             ELSE LET file == rs.StagedFiles[i + 1]
                      st == RemoveAt(rs.StagedFiles, i)
                      un == Append(rs.UnstagedFiles,
                                   [file EXCEPT !.Staged = FALSE, !.WorkTree = TRUE])
                  IN  [rs |-> [rs EXCEPT !.UnstagedFiles = un, !.StagedFiles = st],
                       sel |-> IF sel >= Len(st) THEN Max(0, Len(st) - 1) ELSE sel]

handleFileStatusUpdate(m, msg) ==
    LET r == MoveFile(m.repoStatus, m.selectedIndex, msg.path, msg.staged)
    IN  [m EXCEPT !.repoStatus = r.rs, !.selectedIndex = r.sel]

-----------------------------------------------------------------------------
(* StatusModel.Update *)

\* The keys of the model.  Every key that is one printable character is also
\* text for a focused text input.
Keys == {"q", "esc", "r", "enter", "h", "l", "j", "k", "g", "G", "s", "+", "-",
         "u", "d", "a", "c", "p", "/", "backspace"}

IsRune(key) ==
    key \notin {"esc", "enter", "backspace", "tab", "ctrl+c", "ctrl+enter", "up", "down"}

\* textinput.Model.Update of the bubbles library on a focused input whose
\* cursor is at the end: a rune key appends its character, backspace removes
\* the last one, any other message leaves the value alone.
TextInputUpdate(value, msg) ==
    IF msg.type # "KeyMsg" THEN value
    ELSE IF msg.text = "backspace"
         THEN (IF value = <<>> THEN value ELSE SubSeq(value, 1, Len(value) - 1))
    ELSE IF IsRune(msg.text) THEN Append(value, msg.text)
    ELSE value

\* The end of Update (part_004:414-433), reached by every case that does not
\* return: the commit input, else the search input, else the viewport gets
\* the message.
UpdateInputs(m, msg) ==
    IF m.showCommit
    THEN Ret([m EXCEPT !.commitInput = TextInputUpdate(m.commitInput, msg)], <<>>)
    ELSE IF m.showSearch
    THEN LET new == TextInputUpdate(m.searchInput, msg)
         IN  IF new # m.searchInput
             THEN smPerformSearch([m EXCEPT !.searchInput = new, !.searchQuery = new])
             ELSE Ret(m, <<>>)
    ELSE Ret(m, <<>>)

KeyEsc(m, msg) ==
    IF m.showSearch
    THEN Ret([m EXCEPT !.showSearch = FALSE, !.searchInput = <<>>,
                       !.searchQuery = <<>>, !.filteredIndices = <<>>,
                       !.searchSelected = 0], <<>>)
    ELSE IF m.showCommit
    THEN Ret([m EXCEPT !.showCommit = FALSE, !.commitInput = <<>>], <<>>)
    ELSE IF m.showDiff
    THEN Ret([m EXCEPT !.showDiff = FALSE, !.diffContent = NoDiff], <<>>)
    ELSE UpdateInputs(m, msg)

KeyR(m, msg) ==
    IF ~m.showCommit /\ ~m.showSearch
    THEN Ret(m, <<Cmd("loadingMsg"), Cmd("refreshStatus")>>)
    ELSE UpdateInputs(m, msg)

\* the open-item key confirming a commit whatever the message is
KeyEnter_commitsEmpty(m, msg) ==
    IF m.showSearch
    THEN LET sel == IF Len(m.filteredIndices) > 0
                       /\ m.searchSelected < Len(m.filteredIndices)
                    THEN m.filteredIndices[m.searchSelected + 1]
                    ELSE m.selectedIndex
         IN  Ret([m EXCEPT !.selectedIndex = sel, !.showSearch = FALSE,
                           !.searchInput = <<>>], <<>>)
    ELSE IF m.showCommit
    THEN Ret(m, <<ArgCmd("performCommit", m.commitInput)>>)
    ELSE IF m.currentPanel = "BranchesPanel" /\ m.repoStatus.isNil
    THEN Panic(m)       \* len(m.repoStatus.Branches) on a nil pointer
    ELSE IF m.currentPanel = "BranchesPanel"
            /\ m.selectedIndex < Len(m.repoStatus.Branches)
    THEN LET branch == m.repoStatus.Branches[m.selectedIndex + 1]
         IN  IF ~branch.IsCurrent /\ ~branch.IsRemote
             THEN Ret(m, <<ArgCmd("switchBranch", branch.Name)>>)
             ELSE UpdateInputs(m, msg)
    ELSE Ret(m, <<CursorCmd("showFileDiff", m)>>)

KeyEnter(m, msg) ==
    IF m.showSearch
    THEN LET sel == IF Len(m.filteredIndices) > 0
                       /\ m.searchSelected < Len(m.filteredIndices)
                    THEN m.filteredIndices[m.searchSelected + 1]
                    ELSE m.selectedIndex
         IN  Ret([m EXCEPT !.selectedIndex = sel, !.showSearch = FALSE,
                           !.searchInput = <<>>], <<>>)
    ELSE IF m.showCommit
    THEN IF m.commitInput # <<>>
         THEN Ret(m, <<ArgCmd("performCommit", m.commitInput)>>)
         ELSE UpdateInputs(m, msg)
    ELSE IF m.currentPanel = "BranchesPanel" /\ m.repoStatus.isNil
    THEN Panic(m)       \* len(m.repoStatus.Branches) on a nil pointer
    ELSE IF m.currentPanel = "BranchesPanel"
            /\ m.selectedIndex < Len(m.repoStatus.Branches)
    THEN LET branch == m.repoStatus.Branches[m.selectedIndex + 1]
         IN  IF ~branch.IsCurrent /\ ~branch.IsRemote
             THEN Ret(m, <<ArgCmd("switchBranch", branch.Name)>>)
             ELSE UpdateInputs(m, msg)
    ELSE Ret(m, <<CursorCmd("showFileDiff", m)>>)

KeyH(m, msg) ==
    IF ~m.showCommit /\ ~m.showSearch
    THEN LET panel == CASE m.currentPanel = "StagedPanel"   -> "UnstagedPanel"
                        [] m.currentPanel = "BranchesPanel" -> "StagedPanel"
                        [] m.currentPanel = "StashesPanel"  -> "BranchesPanel"
                        [] OTHER -> m.currentPanel
         IN  UpdateInputs([m EXCEPT !.currentPanel = panel, !.selectedIndex = 0], msg)
    ELSE UpdateInputs(m, msg)

\* the right key going on from the last panel to the first
KeyL_ring(m, msg) ==
    IF ~m.showCommit /\ ~m.showSearch
    THEN LET panel == CASE m.currentPanel = "UnstagedPanel" -> "StagedPanel"
                        [] m.currentPanel = "StagedPanel"   -> "BranchesPanel"
                        [] m.currentPanel = "BranchesPanel" -> "StashesPanel"
                        [] OTHER -> "UnstagedPanel"
         IN  UpdateInputs([m EXCEPT !.currentPanel = panel, !.selectedIndex = 0], msg)
    ELSE UpdateInputs(m, msg)

KeyL(m, msg) ==
    IF ~m.showCommit /\ ~m.showSearch
    THEN LET panel == CASE m.currentPanel = "UnstagedPanel" -> "StagedPanel"
                        [] m.currentPanel = "StagedPanel"   -> "BranchesPanel"
                        [] m.currentPanel = "BranchesPanel" -> "StashesPanel"
                        [] OTHER -> m.currentPanel
         IN  UpdateInputs([m EXCEPT !.currentPanel = panel, !.selectedIndex = 0], msg)
    ELSE UpdateInputs(m, msg)

KeyJ(m, msg) ==
    IF m.showDiff THEN UpdateInputs(m, msg)            \* viewport.LineDown
    ELSE IF m.showSearch
    THEN LET n == Len(m.filteredIndices)
         IN  UpdateInputs(IF n > 0
                          THEN [m EXCEPT !.searchSelected = (m.searchSelected + 1) % n]
                          ELSE m, msg)
    ELSE IF ~m.showCommit THEN UpdateInputs(moveDown(m), msg)
    ELSE UpdateInputs(m, msg)

KeyK(m, msg) ==
    IF m.showDiff THEN UpdateInputs(m, msg)            \* viewport.LineUp
    ELSE IF m.showSearch
    THEN LET n == Len(m.filteredIndices)
         IN  UpdateInputs(IF n > 0
                          THEN [m EXCEPT !.searchSelected = (m.searchSelected - 1 + n) % n]
                          ELSE m, msg)
    ELSE IF ~m.showCommit THEN UpdateInputs(moveUp(m), msg)
    ELSE UpdateInputs(m, msg)

KeyG(m, msg) ==
    IF m.showDiff THEN UpdateInputs(m, msg)            \* viewport.GotoTop
    ELSE IF ~m.showCommit /\ ~m.showSearch
    THEN UpdateInputs([m EXCEPT !.selectedIndex = 0], msg)
    ELSE UpdateInputs(m, msg)

KeyShiftG(m, msg) ==
    IF m.showDiff THEN UpdateInputs(m, msg)            \* viewport.GotoBottom
    ELSE IF ~m.showCommit /\ ~m.showSearch
    THEN LET count == getCurrentFileCount(m)
         IN  UpdateInputs(IF count > 0
                          THEN [m EXCEPT !.selectedIndex = count - 1]
                          ELSE m, msg)
    ELSE UpdateInputs(m, msg)

KeyS(m, msg) ==
    IF ~m.showCommit /\ ~m.showSearch
    THEN Ret(m, <<CursorCmd("stageFile", m)>>)
    ELSE UpdateInputs(m, msg)

KeyPlus(m, msg) ==
    IF ~m.showCommit
    THEN IF m.showSearch
         THEN Ret(m, <<SearchCmd("stageFileFromSearch", m)>>)
         ELSE Ret(m, <<CursorCmd("stageFile", m)>>)
    ELSE UpdateInputs(m, msg)

KeyMinus(m, msg) ==
    IF ~m.showCommit
    THEN IF m.showSearch
         THEN Ret(m, <<SearchCmd("unstageFileFromSearch", m)>>)
         ELSE Ret(m, <<CursorCmd("unstageFile", m)>>)
    ELSE UpdateInputs(m, msg)

KeyU(m, msg) ==
    IF ~m.showCommit /\ ~m.showSearch
    THEN Ret(m, <<CursorCmd("unstageFile", m)>>)
    ELSE UpdateInputs(m, msg)

KeyD(m, msg) ==
    IF ~m.showCommit /\ ~m.showSearch
    THEN IF m.currentPanel = "StashesPanel"
         THEN Ret(m, <<CursorCmd("deleteStash", m)>>)
         ELSE Ret(m, <<CursorCmd("discardChanges", m)>>)
    ELSE UpdateInputs(m, msg)

KeyA(m, msg) ==
    IF ~m.showCommit /\ ~m.showSearch
    THEN Ret(m, <<Cmd("stageAllFiles")>>)
    ELSE UpdateInputs(m, msg)

\* the commit key without the test on the staged list
KeyC_noStagedTest(m, msg) ==
    IF ~m.showCommit /\ ~m.showSearch
    THEN Ret([m EXCEPT !.showCommit = TRUE, !.commitInput = <<>>], <<>>)
    ELSE UpdateInputs(m, msg)

KeyC(m, msg) ==
    IF ~m.showCommit /\ ~m.showSearch
       /\ ~m.repoStatus.isNil /\ Len(m.repoStatus.StagedFiles) > 0
    THEN Ret([m EXCEPT !.showCommit = TRUE, !.commitInput = <<>>], <<>>)
    ELSE UpdateInputs(m, msg)

KeyP(m, msg) ==
    IF ~m.showCommit /\ ~m.showSearch
    THEN Ret(m, <<Cmd("pushChanges")>>)
    ELSE UpdateInputs(m, msg)

KeySlash(m, msg) ==
    IF ~m.showCommit /\ ~m.showDiff
    THEN Ret([m EXCEPT !.showSearch = TRUE, !.searchInput = <<>>], <<>>)
    ELSE UpdateInputs(m, msg)

UpdateKey(m, msg) ==
    LET key == msg.text
    IN  IF m.quitting THEN Ret(m, <<>>)               \* return m, tea.Quit
        ELSE CASE key = "q"     -> Ret([m EXCEPT !.quitting = TRUE], <<>>)
               [] key = "esc"   -> KeyEsc(m, msg)
               [] key = "r"     -> KeyR(m, msg)
               [] key = "enter" -> KeyEnter(m, msg)
               [] key = "h"     -> KeyH(m, msg)
               [] key = "l"     -> KeyL(m, msg)
               [] key = "j"     -> KeyJ(m, msg)
               [] key = "down"  -> KeyJ(m, msg)
               [] key = "k"     -> KeyK(m, msg)
               [] key = "up"    -> KeyK(m, msg)
               [] key = "g"     -> KeyG(m, msg)
               [] key = "G"     -> KeyShiftG(m, msg)
               [] key = "s"     -> KeyS(m, msg)
               [] key = "+"     -> KeyPlus(m, msg)
               [] key = "-"     -> KeyMinus(m, msg)
               [] key = "u"     -> KeyU(m, msg)
               [] key = "d"     -> KeyD(m, msg)
               [] key = "a"     -> KeyA(m, msg)
               [] key = "c"     -> KeyC(m, msg)
               [] key = "p"     -> KeyP(m, msg)
               [] key = "/"     -> KeySlash(m, msg)
               [] OTHER         -> UpdateInputs(m, msg)

\* the statusMsg case without the clamp of the cursor
UpdateStatus_noClamp(m, msg) ==
    UpdateInputs([m EXCEPT !.repoStatus = msg.status, !.isLoading = FALSE], msg)

\* case statusMsg
UpdateStatus(m, msg) ==
    LET m1 == [m EXCEPT !.repoStatus = msg.status, !.isLoading = FALSE]
        count == getCurrentFileCount(m1)
    IN  UpdateInputs(IF m1.selectedIndex >= count
                     THEN [m1 EXCEPT !.selectedIndex = Max(0, count - 1)]
                     ELSE m1, msg)

\* case diffMsg
UpdateDiff(m, msg) ==
    UpdateInputs([m EXCEPT !.diffContent = msg.diff, !.showDiff = TRUE], msg)

\* case error
UpdateError(m, msg) ==
    Ret(showMessage(m, msg.text), <<Cmd("refreshStatus")>>)

\* case string
UpdateString(m, msg) ==
    CASE msg.text = "commit_success" ->
           Ret(showMessage([m EXCEPT !.showCommit = FALSE, !.commitInput = <<>>],
                           "Commit successful!"),
               <<Cmd("refreshStatus")>>)
      [] msg.text = "push_success" ->
           Ret(showMessage(m, "Push successful!"), <<Cmd("refreshStatus")>>)
      [] OTHER -> UpdateInputs(m, msg)

Update(m, msg) ==
    CASE msg.type = "KeyMsg"     -> UpdateKey(m, msg)
      [] msg.type = "statusMsg"  -> UpdateStatus(m, msg)
      [] msg.type = "diffMsg"    -> UpdateDiff(m, msg)
      [] msg.type = "refreshMsg" ->
           Ret([m EXCEPT !.isLoading = TRUE, !.loadingMsg = "Refreshing status..."],
               <<Cmd("refreshStatus")>>)
      [] msg.type = "loadingMsg" ->
           Ret([m EXCEPT !.isLoading = TRUE, !.loadingMsg = msg.text], <<>>)
      [] msg.type = "fileStatusUpdateMsg" ->
           Ret(handleFileStatusUpdate(m, msg), <<>>)
      [] msg.type = "error"      -> UpdateError(m, msg)
      [] msg.type = "string"     -> UpdateString(m, msg)
      [] OTHER                   -> UpdateInputs(m, msg)

-----------------------------------------------------------------------------
(* StatusModel commands: the message each returns, <<>> for a nil message. *)
(* rs is the *RepoStatus the command's copy of the model points to, ok     *)
(* whether the gateway call it makes succeeds, out the porcelain output a  *)
(* refresh reads.                                                          *)

refreshStatus(ok, out) ==
    IF ok THEN <<statusMsg(GetRepositoryStatus(out))>> ELSE <<statusMsg(NilStatus)>>

stageFile(c, rs, ok) ==
    IF rs.isNil \/ c.panel # "UnstagedPanel" \/ c.sel >= Len(rs.UnstagedFiles)
    THEN <<>>
    ELSE LET file == rs.UnstagedFiles[c.sel + 1]
         IN  IF ~ok THEN <<errorMsg("failed to stage file")>>
             ELSE <<updateFileStatus(file, TRUE)>>

unstageFile(c, rs, ok) ==
    IF rs.isNil \/ c.panel # "StagedPanel" \/ c.sel >= Len(rs.StagedFiles)
    THEN <<>>
    ELSE LET file == rs.StagedFiles[c.sel + 1]
             err == UnstageFile(file.Status, ok)
         IN  IF err # "" THEN <<errorMsg("failed to unstage file")>>
             ELSE <<updateFileStatus(file, FALSE)>>

discardChanges(c, rs, ok) ==
    IF rs.isNil \/ c.panel # "UnstagedPanel" \/ c.sel >= Len(rs.UnstagedFiles)
    THEN <<refreshMsg>>
    ELSE IF ~ok THEN <<errorMsg("failed to discard changes")>>
    ELSE <<refreshMsg>>

stageAllFiles(ok) == <<refreshMsg>>

pushChanges(ok) ==
    IF ~ok THEN <<errorMsg("push failed")>> ELSE <<stringMsg("push_success")>>

performCommit(ok) ==
    IF ~ok THEN <<errorMsg("commit failed")>> ELSE <<stringMsg("commit_success")>>

switchBranch(ok) ==
    IF ~ok THEN <<errorMsg("failed to switch branch")>> ELSE <<refreshMsg>>

showFileDiff(c, rs, ok) ==
    IF rs.isNil THEN <<refreshMsg>>
    ELSE CASE c.panel = "UnstagedPanel" /\ c.sel < Len(rs.UnstagedFiles) ->
                <<diffMsg(Diff(IF ok THEN "diff" ELSE "Error getting diff",
                               rs.UnstagedFiles[c.sel + 1].Path, FALSE))>>
           [] c.panel = "StagedPanel" /\ c.sel < Len(rs.StagedFiles) ->
                <<diffMsg(Diff(IF ok THEN "diff" ELSE "Error getting diff",
                               rs.StagedFiles[c.sel + 1].Path, TRUE))>>
           [] c.panel = "BranchesPanel" /\ c.sel < Len(rs.Branches) ->
                <<diffMsg(Diff("Branch", rs.Branches[c.sel + 1].Name, FALSE))>>
           [] c.panel = "StashesPanel" /\ c.sel < Len(rs.Stashes) ->
                <<diffMsg(Diff("Stash", rs.Stashes[c.sel + 1].Message, FALSE))>>
           [] OTHER -> <<refreshMsg>>

stageFileFromSearch(c, rs, ok) ==
    IF rs.isNil \/ c.panel # "UnstagedPanel"
       \/ Len(c.filt) = 0 \/ c.ssel >= Len(c.filt)
    THEN <<>>
    ELSE LET actualIndex == c.filt[c.ssel + 1]
         IN  IF actualIndex >= Len(rs.UnstagedFiles) THEN <<>>
             ELSE IF ~ok THEN <<errorMsg("failed to stage file")>>
             ELSE <<updateFileStatus(rs.UnstagedFiles[actualIndex + 1], TRUE)>>

unstageFileFromSearch(c, rs, ok) ==
    IF rs.isNil \/ c.panel # "StagedPanel"
       \/ Len(c.filt) = 0 \/ c.ssel >= Len(c.filt)
    THEN <<>>
    ELSE LET actualIndex == c.filt[c.ssel + 1]
         IN  IF actualIndex >= Len(rs.StagedFiles) THEN <<>>
             ELSE LET file == rs.StagedFiles[actualIndex + 1]
                  IN  IF UnstageFile(file.Status, ok) # ""
                      THEN <<errorMsg("failed to unstage file")>>
                      ELSE <<updateFileStatus(file, FALSE)>>

deleteStash(c, rs, ok) ==
    IF rs.isNil \/ c.panel # "StashesPanel" \/ c.sel >= Len(rs.Stashes)
    THEN <<>>
    ELSE IF ~ok THEN <<errorMsg("failed to delete stash")>>
    ELSE <<refreshMsg>>

RunCmd(c, rs, ok, out) ==
    CASE c.kind = "refreshStatus"         -> refreshStatus(ok, out)
      [] c.kind = "loadingMsg"            -> <<loadingMsg("Refreshing status...")>>
      [] c.kind = "stageFile"             -> stageFile(c, rs, ok)
      [] c.kind = "unstageFile"           -> unstageFile(c, rs, ok)
      [] c.kind = "discardChanges"        -> discardChanges(c, rs, ok)
      [] c.kind = "stageAllFiles"         -> stageAllFiles(ok)
      [] c.kind = "pushChanges"           -> pushChanges(ok)
      [] c.kind = "performCommit"         -> performCommit(ok)
      [] c.kind = "switchBranch"          -> switchBranch(ok)
      [] c.kind = "showFileDiff"          -> showFileDiff(c, rs, ok)
      [] c.kind = "stageFileFromSearch"   -> stageFileFromSearch(c, rs, ok)
      [] c.kind = "unstageFileFromSearch" -> unstageFileFromSearch(c, rs, ok)
      [] c.kind = "deleteStash"           -> deleteStash(c, rs, ok)

\* the status the goroutine of command c reads
StatusOf(c, m) == IF c.live THEN m.repoStatus ELSE c.rs

\* The command calls the gateway: its guard, where it has one, lets it pass.
\* (stageFile, unstageFile, deleteStash and the two search variants return
\* nil when the guard stops them.)
CallsGateway(c, rs) ==
    CASE c.kind \in {"refreshStatus", "stageAllFiles", "pushChanges", "performCommit",
                     "switchBranch"} -> TRUE
      [] c.kind = "discardChanges" ->
            ~(rs.isNil \/ c.panel # "UnstagedPanel" \/ c.sel >= Len(rs.UnstagedFiles))
      [] c.kind \in {"stageFile", "unstageFile", "deleteStash", "stageFileFromSearch",
                     "unstageFileFromSearch"} -> RunCmd(c, rs, TRUE, <<>>) # <<>>
      [] OTHER -> FALSE

\* The methods of the gateway (m.repo) the goroutine of command c calls, in
\* order, when its guard lets it pass.
GatewayCalls(c) ==
    CASE c.kind = "refreshStatus"  -> <<"GetRepositoryStatus">>
      [] c.kind \in {"stageFile", "stageFileFromSearch"} -> <<"StageFile">>
      [] c.kind \in {"unstageFile", "unstageFileFromSearch"} -> <<"UnstageFile">>
      [] c.kind = "discardChanges" -> <<"DiscardChanges">>
      [] c.kind = "stageAllFiles"  -> <<"StageAllFiles">>
      [] c.kind = "pushChanges"    -> <<"Push">>
      [] c.kind = "performCommit"  -> <<"Commit">>
      [] c.kind = "switchBranch"   -> <<"SwitchBranch">>
      [] c.kind = "showFileDiff"   -> <<"GetFileDiff">>
      [] c.kind = "deleteStash"    -> <<"DeleteStash">>
      [] OTHER -> <<>>

-----------------------------------------------------------------------------
(* The bubbletea runtime around StatusModel *)

RECURSIVE SeqToBag(_)
SeqToBag(s) ==
    IF s = <<>> THEN EmptyBag ELSE SetToBag({Head(s)}) (+) SeqToBag(Tail(s))

InFlight(cmds, msgs) == BagCardinality(cmds) + BagCardinality(msgs)

\* The loop replaces its *RepoStatus: every command still reading the old one
\* keeps it as it is now.
RECURSIVE DetachAll(_, _, _)
DetachAll(S, cmds, old) ==
    IF S = {} THEN EmptyBag
    ELSE LET c == CHOOSE x \in S : TRUE
             d == IF c.live THEN [c EXCEPT !.live = FALSE, !.rs = old] ELSE c
         IN  [x \in {d} |-> cmds[c]] (+) DetachAll(S \ {c}, cmds, old)

Detach(cmds, old) == DetachAll(BagToSet(cmds), cmds, old)

\* One call of Update by the event loop, with the commands it returns handed
\* to the runtime.
Step(msg, cmds, msgs) ==
    LET r == Update(sm, msg)
        kept == IF msg.type = "statusMsg"
                THEN Detach(cmds, sm.repoStatus)
                ELSE cmds
    IN  /\ Len(r.m.searchInput) <= MaxInput
        /\ Len(r.m.commitInput) <= MaxInput
        /\ InFlight(kept, msgs) + Len(r.cmds) <= MaxInFlight
        /\ crashed' = r.panic
        /\ sm' = r.m
        /\ smCmds' = kept (+) SeqToBag(r.cmds)
        /\ smMsgs' = msgs

Running == ~crashed /\ ~sm.quitting

\* A key press
Press(key) ==
    /\ Running
    /\ keys < MaxKeys
    /\ keys' = keys + 1
    /\ Step(KeyMsg(key), smCmds, smMsgs)
    /\ UNCHANGED <<fpVars, flVars, bs, lastKey>>

\* A goroutine runs a dispatched command; its message, unless nil, is queued.
RunCommand ==
    /\ Running
    /\ \E c \in BagToSet(smCmds), ok \in BOOLEAN :
       \E out \in IF c.kind = "refreshStatus" /\ ok THEN PorcelainOutputs ELSE {<<>>} :
          /\ smMsgs' = smMsgs (+) SeqToBag(RunCmd(c, StatusOf(c, sm),
                                                  ok, out))
          /\ smCmds' = smCmds (-) SetToBag({c})
    /\ UNCHANGED <<sm, crashed, keys, fpVars, flVars, bs, lastKey>>

\* The event loop takes a queued message and calls Update with it.
Deliver(type) ==
    /\ Running
    /\ \E msg \in BagToSet(smMsgs) :
          /\ msg.type = type
          /\ Step(msg, smCmds, smMsgs (-) SetToBag({msg}))
    /\ UNCHANGED <<keys, fpVars, flVars, bs, lastKey>>

\* the message types a command of the dashboard can produce
MsgTypes == {"statusMsg", "diffMsg", "refreshMsg", "loadingMsg",
             "fileStatusUpdateMsg", "error", "string"}

\* tea.NewProgram(NewStatusModel(repo)).Run(): Init() dispatches refreshStatus
SmInit ==
    /\ sm = NewStatusModel
    /\ smCmds = SetToBag({Cmd("refreshStatus")})
    /\ smMsgs = EmptyBag

SmNext ==
    \/ \E key \in Keys : Press(key)
    \/ RunCommand
    \/ \E type \in MsgTypes : Deliver(type)

FpIdle == fp = 0 /\ fpHeap = 0 /\ fpCmds = 0 /\ fpMsgs = 0
FlIdle == items = <<>> /\ query = <<>> /\ found = 0

Init == SmInit /\ crashed = FALSE /\ keys = 0 /\ FpIdle /\ FlIdle /\ lastKey = "" /\ bs = 0

Spec == Init /\ [][SmNext]_vars

\* The dashboard again, each run remembering the key of its latest key press
\* in lastKey, for the claims about what one key does.
PressTraced(key) ==
    /\ Running
    /\ keys < MaxTracedKeys
    /\ keys' = keys + 1
    /\ lastKey' = key
    /\ Step(KeyMsg(key), smCmds, smMsgs)
    /\ UNCHANGED <<fpVars, flVars, bs>>

TracedNext ==
    \/ \E key \in Keys : PressTraced(key)
    \/ RunCommand
    \/ \E type \in MsgTypes : Deliver(type)

SpecTraced == Init /\ [][TracedNext]_vars

\* The dashboard of a working tree with two modified files whose paths share
\* a character, from the moment the first status has been shown, under the
\* keys of Search mode: the search key, characters, the arrow keys and j, the
\* open-item, cancel and stage keys.
SearchTreeOutput == << Line(" ", "M", <<"a">>), Line(" ", "M", <<"a", "c">>) >>

SearchModeKeys == {"/", "a", "c", "j", "down", "up", "enter", "esc", "+", "backspace"}

SearchModeMsgTypes == {"statusMsg", "diffMsg", "fileStatusUpdateMsg", "error"}

SearchModeInit ==
    /\ sm = Update(NewStatusModel, statusMsg(GetRepositoryStatus(SearchTreeOutput))).m
    /\ smCmds = EmptyBag
    /\ smMsgs = EmptyBag
    /\ crashed = FALSE /\ keys = 0 /\ FpIdle /\ FlIdle /\ lastKey = "" /\ bs = 0

SearchModeNext ==
    \/ \E key \in SearchModeKeys : Press(key)
    \/ RunCommand
    \/ \E type \in SearchModeMsgTypes : Deliver(type)

SpecSearchMode == SearchModeInit /\ [][SearchModeNext]_vars

-----------------------------------------------------------------------------
(* Claims about the StatusModel dashboard, checked under Spec *)

\* C1: selectedIndex is less than the length of the active panel's current
\* list, or 0 when that list is empty, in every reachable state.
C1_CursorInBounds ==
    LET n == getCurrentFileCount(sm)
    IN  /\ sm.selectedIndex >= 0
        /\ IF n = 0 THEN sm.selectedIndex = 0 ELSE sm.selectedIndex < n

AllPaths(rs) == Paths(rs.UnstagedFiles) \o Paths(rs.StagedFiles)

\* C3: no path is in both the Unstaged and the Staged list, and no path
\* occurs twice within one list, in every reachable state.
C3_PathsUnique ==
    LET all == AllPaths(sm.repoStatus)
    IN  \A i, j \in 1..Len(all) : all[i] = all[j] => i = j

InList(files, path) == \E i \in 1..Len(files) : files[i].Path = path

\* The optimistic round trip on the status rs for the Unstaged entry at the
\* 0-based index i, every git call succeeding: the stage key on it, its
\* fileStatusUpdateMsg, then the unstage key on the entry of that path in the
\* Staged panel, and the message of that command.  [mid, end]: the status
\* after the first and after the second half.
RoundTrip(rs, i) ==
    LET m0 == [NewStatusModel EXCEPT !.repoStatus = rs, !.selectedIndex = i]
        msgs1 == stageFile(CursorCmd("stageFile", m0), rs, TRUE)
        m1 == IF msgs1 # <<>> /\ msgs1[1].type = "fileStatusUpdateMsg"
              THEN handleFileStatusUpdate(m0, msgs1[1]) ELSE m0
        k == IndexOfPath(m1.repoStatus.StagedFiles, rs.UnstagedFiles[i + 1].Path, 0)
        m2 == [m1 EXCEPT !.currentPanel = "StagedPanel", !.selectedIndex = Max(k, 0)]
        msgs2 == unstageFile(CursorCmd("unstageFile", m2), m2.repoStatus, TRUE)
        m3 == IF msgs2 # <<>> /\ msgs2[1].type = "fileStatusUpdateMsg"
              THEN handleFileStatusUpdate(m2, msgs2[1]) ELSE m2
    IN  [mid |-> m1.repoStatus, end |-> m3.repoStatus]

\* C4: for every file of the Unstaged list, staging it and then unstaging it
\* returns it to the Unstaged list with its original status code, and in
\* neither the state between nor the state after is it in both lists.
C4_RoundTrip ==
    LET rs == sm.repoStatus
    IN  \A i \in 0..(Len(rs.UnstagedFiles) - 1) :
          LET file == rs.UnstagedFiles[i + 1]
              t == RoundTrip(rs, i)
          IN  /\ \E j \in 1..Len(t.end.UnstagedFiles) :
                    /\ t.end.UnstagedFiles[j].Path = file.Path
                    /\ t.end.UnstagedFiles[j].Status = file.Status
              /\ ~InList(t.end.StagedFiles, file.Path)
              /\ ~(InList(t.mid.StagedFiles, file.Path)
                   /\ InList(t.mid.UnstagedFiles, file.Path))

Flag(b) == IF b THEN 1 ELSE 0

\* C5: at most one of showCommit, showSearch and showDiff is true in every
\* reachable state.
C5_OneMode ==
    Flag(sm.showCommit) + Flag(sm.showSearch) + Flag(sm.showDiff) <= 1

\* a failed refresh has been applied and no other refresh is under way
RefreshFailed ==
    /\ sm.repoStatus.isNil
    /\ \A c \in BagToSet(smCmds) : c.kind # "refreshStatus"
    /\ \A msg \in BagToSet(smMsgs) : msg.type \notin {"statusMsg", "refreshMsg"}

\* C7: once a status refresh has failed and left repoStatus nil, no key press
\* makes Update dereference the nil status.
C7_NoCrashAfterFailedRefresh ==
    [][RefreshFailed => ~crashed']_vars

-----------------------------------------------------------------------------
(* Claims about single keys and commands of the dashboard *)

\* Normal mode: none of the three mode flags is set
NormalMode(m) == ~m.showCommit /\ ~m.showSearch /\ ~m.showDiff

\* the step is a press of the key
Pressed(key) == keys' = keys + 1 /\ lastKey' = key

NoStagedFiles(m) == m.repoStatus.isNil \/ Len(m.repoStatus.StagedFiles) = 0

\* C11: in Normal mode the commit key enters Commit mode only when the Staged
\* list is non-empty; with no staged file, or no status loaded, the key press
\* changes nothing in the model and dispatches no command.
C11_CommitNeedsStaged ==
    [][(Pressed("c") /\ NormalMode(sm))
         => /\ sm'.showCommit => ~NoStagedFiles(sm)
            /\ NoStagedFiles(sm) => /\ sm' = sm
                                    /\ smCmds' = smCmds
                                    /\ smMsgs' = smMsgs
                                    /\ ~crashed']_vars

\* the commit key was the only key pressed, a status with unstaged files only
\* is loaded, and the dashboard is still in Normal mode
C11_Witness ==
    /\ lastKey = "c" /\ keys = 1
    /\ ~sm.repoStatus.isNil
    /\ Len(sm.repoStatus.StagedFiles) = 0
    /\ Len(sm.repoStatus.UnstagedFiles) > 0
    /\ NormalMode(sm)

\* the cursor of the dashboard is on an entry of the Unstaged or Staged list
OnFileEntry(m) ==
    /\ ~m.repoStatus.isNil
    /\ \/ /\ m.currentPanel = "UnstagedPanel"
          /\ m.selectedIndex < Len(m.repoStatus.UnstagedFiles)
       \/ /\ m.currentPanel = "StagedPanel"
          /\ m.selectedIndex < Len(m.repoStatus.StagedFiles)

\* C12: when the open-item key is pressed in Normal mode on a file entry, then
\* immediately after the key press the dashboard is in Diff mode with no
\* content yet, and a diff fetch has been dispatched for the entry under the
\* cursor as it was at the key press (a snapshot: the fetch does not read
\* the status that later updates change).
C12_DiffModeAtKeyPress ==
    [][(Pressed("enter") /\ NormalMode(sm) /\ OnFileEntry(sm))
         => /\ sm'.showDiff
            /\ sm'.diffContent = NoDiff
            /\ \E c \in BagToSet(smCmds') :
                  /\ c.kind = "showFileDiff"
                  /\ c.panel = sm.currentPanel /\ c.sel = sm.selectedIndex
                  /\ ~c.live]_vars

\* the place of a panel in the order Unstaged, Staged, Branches, Stashes
PanelIndex(panel) == CHOOSE i \in 1..Len(Panels) : Panels[i] = panel

\* the neighbours of a panel when the order is closed into a ring
RingRight(panel) == Panels[(PanelIndex(panel) % Len(Panels)) + 1]
RingLeft(panel) == Panels[((PanelIndex(panel) + Len(Panels) - 2) % Len(Panels)) + 1]

\* the neighbours of a panel when the order stops at its two ends
LineRight(panel) == Panels[Min(PanelIndex(panel) + 1, Len(Panels))]
LineLeft(panel) == Panels[Max(PanelIndex(panel) - 1, 1)]

C17_FailureShown ==
    \A c \in BagToSet(smCmds) :
       CallsGateway(c, StatusOf(c, sm)) =>
          LET msgs == RunCmd(c, StatusOf(c, sm), FALSE, <<>>)
          IN  /\ msgs # <<>>
              /\ msgs[1].type = "error"
              /\ msgs[1].text # ""
              /\ Update(sm, msgs[1]).m.message = msgs[1].text

\* the messages command c can return
MessagesOf(c) ==
    UNION { { RunCmd(c, StatusOf(c, sm), ok, out) : out \in PorcelainOutputs \cup {<<>>} }
            : ok \in BOOLEAN }

\* an event is under way whose delivery to Update empties the status message
ClearUnderWay ==
    \/ \E msg \in BagToSet(smMsgs) : Update(sm, msg).m.message = ""
    \/ \E c \in BagToSet(smCmds) :
          \E msgs \in MessagesOf(c) : msgs # <<>> /\ Update(sm, msgs[1]).m.message = ""

\* C18: while the dashboard shows a transient status message, the event that
\* clears it, scheduled when the message was set, is under way.
C18_ClearScheduled ==
    (Running /\ sm.message # "") => ClearUnderWay

\* C19: every command in flight, whatever the gateway answers and whether or
\* not its guard lets it pass, returns exactly one message for the runtime
\* to hand to Update.
C19_OneCompletion ==
    \A c \in BagToSet(smCmds) :
       \A msgs \in MessagesOf(c) : Len(msgs) = 1

\* The goroutine of command c gets as far as reading the Unstaged or the
\* Staged list of its status: the tests before the read, on the panel and on
\* the search result the command captured, let it pass.
ReadsFileLists(c) ==
    \/ c.kind \in {"stageFile", "discardChanges"} /\ c.panel = "UnstagedPanel"
    \/ c.kind = "unstageFile" /\ c.panel = "StagedPanel"
    \/ c.kind = "showFileDiff" /\ c.panel \in {"UnstagedPanel", "StagedPanel"}
    \/ /\ c.kind = "stageFileFromSearch" /\ c.panel = "UnstagedPanel"
       /\ Len(c.filt) > 0 /\ c.ssel < Len(c.filt)
    \/ /\ c.kind = "unstageFileFromSearch" /\ c.panel = "StagedPanel"
       /\ Len(c.filt) > 0 /\ c.ssel < Len(c.filt)

\* the two file lists of a status
FileLists(rs) == <<rs.UnstagedFiles, rs.StagedFiles>>

\* C20: Update never rewrites the lists of the status a running command reads:
\* while a command that reads the Unstaged or Staged list through the
\* *RepoStatus it shares with the model is in flight, no step changes those
\* lists in place.
C20_NoWriteUnderReader ==
    [][\A c \in BagToSet(smCmds) :
          (ReadsFileLists(c) /\ c.live /\ BagIn(c, smCmds'))
             => FileLists(sm'.repoStatus) = FileLists(sm.repoStatus)]_vars

\* C21: a command of the dashboard calls SwitchBranch only after a call that
\* establishes a clean working tree: IsClean, or Stash, comes before it in
\* the calls the command makes.
C21_SwitchAfterCleanCheck ==
    \A c \in BagToSet(smCmds) :
       LET calls == GatewayCalls(c)
       IN  \A i \in 1..Len(calls) :
              calls[i] = "SwitchBranch"
                 => \E j \in 1..(i - 1) : calls[j] \in {"IsClean", "Stash"}

\* C22: in Normal mode the search key enters Search mode with nothing left of
\* an earlier search: right after it the query is empty, there are no
\* filtered indices, and searchSelected is 0.
C22_SearchStartsEmpty ==
    (Running /\ NormalMode(sm)) =>
       LET r == Update(sm, KeyMsg("/"))
       IN  /\ r.m.showSearch
           /\ r.m.searchInput = <<>>
           /\ r.m.searchQuery = <<>>
           /\ r.m.filteredIndices = <<>>
           /\ r.m.searchSelected = 0

\* the stage, unstage, discard, stage-all, push, commit-entry and panel-switch
\* keys of the dashboard
OperationKeys == {"s", "+", "-", "u", "d", "a", "p", "c", "h", "l"}

\* the three mode flags of a model
ModeFlags(m) == <<m.showCommit, m.showSearch, m.showDiff>>

\* C24: while Commit or Diff mode is active, none of the operation keys
\* dispatches a command or changes the active panel, the cursor or the mode.
C24_OperationKeysInert ==
    (Running /\ (sm.showCommit \/ sm.showDiff)) =>
       \A key \in OperationKeys :
          LET r == Update(sm, KeyMsg(key))
          IN  /\ r.cmds = <<>>
              /\ r.m.currentPanel = sm.currentPanel
              /\ r.m.selectedIndex = sm.selectedIndex
              /\ ModeFlags(r.m) = ModeFlags(sm)

\* C26: Enter in Commit mode with an empty message dispatches no command and
\* changes nothing in the model; with a message typed it dispatches the
\* commit of exactly that message.
C26_EmptyCommitRejected ==
    (Running /\ sm.showCommit) =>
       LET r == Update(sm, KeyMsg("enter"))
       IN  /\ ~r.panic
           /\ r.m = sm
           /\ r.cmds = IF sm.commitInput = <<>> THEN <<>>
                       ELSE <<ArgCmd("performCommit", sm.commitInput)>>

\* the commit key and then Enter have been pressed: the dashboard is still in
\* Commit mode with its empty message, and no commit is under way
C26_Witness ==
    /\ lastKey = "enter" /\ keys = 2
    /\ Running /\ sm.showCommit /\ sm.commitInput = <<>>
    /\ \A c \in BagToSet(smCmds) : c.kind # "performCommit"

\* C27: in Commit mode a failed commit completion keeps the mode and the
\* message typed; a successful one switches to Normal mode, empties the
\* message and dispatches a status refresh; and no key but the cancel key, and
\* no other message under way, takes the dashboard out of Commit mode.
C27_CommitModeExits ==
    (Running /\ sm.showCommit) =>
       /\ \A key \in Keys \ {"esc"} : Update(sm, KeyMsg(key)).m.showCommit
       /\ \A msg \in BagToSet(smMsgs) :
             LET r == Update(sm, msg)
             IN  IF msg = performCommit(TRUE)[1]
                 THEN /\ NormalMode(r.m)
                      /\ r.m.commitInput = <<>>
                      /\ r.cmds = <<Cmd("refreshStatus")>>
                 ELSE /\ r.m.showCommit
                      /\ r.m.commitInput = sm.commitInput

\* C28: Update, given a fileStatusUpdateMsg under way for a path that is in
\* the source list (Unstaged for a stage, Staged for an unstage), takes
\* exactly one entry of that path out of the source list and keeps the order
\* of the rest, puts it at the end of the destination list with the same path
\* and status code and the staged flag flipped, leaves the entries already
\* there, the Branches and the Stashes as they were, and dispatches nothing;
\* for a path that is not in the source list it changes nothing.
C28_MoveExactlyOne ==
    Running =>
      \A msg \in BagToSet(smMsgs) :
         msg.type = "fileStatusUpdateMsg" =>
            LET r == Update(sm, msg)
                old == sm.repoStatus
                new == r.m.repoStatus
                src(rs) == IF msg.staged THEN rs.UnstagedFiles ELSE rs.StagedFiles
                dst(rs) == IF msg.staged THEN rs.StagedFiles ELSE rs.UnstagedFiles
                n == Len(dst(old))
            IN  /\ r.cmds = <<>> /\ ~r.panic
                /\ IF ~old.isNil /\ InList(src(old), msg.path)
                   THEN /\ \E i \in 1..Len(src(old)) :
                             /\ src(old)[i].Path = msg.path
                             /\ src(new) = SubSeq(src(old), 1, i - 1)
                                             \o SubSeq(src(old), i + 1, Len(src(old)))
                             /\ dst(new)[n + 1].Status = src(old)[i].Status
                        /\ Len(dst(new)) = n + 1
                        /\ SubSeq(dst(new), 1, n) = dst(old)
                        /\ dst(new)[n + 1].Path = msg.path
                        /\ dst(new)[n + 1].Staged = msg.staged
                        /\ new.Branches = old.Branches /\ new.Stashes = old.Stashes
                   ELSE r.m = sm

\* an untracked file has been moved to the Staged list, where only
\* handleFileStatusUpdate can put it, and another move is under way
C28_Witness ==
    /\ Running /\ ~sm.repoStatus.isNil
    /\ \E i \in 1..Len(sm.repoStatus.StagedFiles) :
          /\ sm.repoStatus.StagedFiles[i].Status = "?"
          /\ sm.repoStatus.StagedFiles[i].Staged
    /\ \E msg \in BagToSet(smMsgs) : msg.type = "fileStatusUpdateMsg"

\* C29: a stage-all or a discard command under way yields a refreshMsg or an
\* error; Update, given either of them, dispatches exactly refreshStatus; and
\* Update, given a statusMsg, makes the status the message carries the status
\* of the dashboard, Staged and Unstaged lists included and nothing of the old
\* lists kept, with the cursor in 0 .. max(0, n - 1) for the n entries of the
\* active panel's new list.
C29_RefreshReplaces ==
    Running =>
      /\ \A c \in BagToSet(smCmds) : \A ok \in BOOLEAN :
            c.kind \in {"stageAllFiles", "discardChanges"} =>
               LET out == RunCmd(c, StatusOf(c, sm), ok, <<>>)
               IN  Len(out) = 1 /\ out[1].type \in {"refreshMsg", "error"}
      /\ \A msg \in BagToSet(smMsgs) :
            /\ msg.type \in {"refreshMsg", "error"} =>
                  Update(sm, msg).cmds = <<Cmd("refreshStatus")>>
            /\ msg.type = "statusMsg" =>
                  LET r == Update(sm, msg)
                  IN  /\ ~r.panic /\ r.cmds = <<>>
                      /\ r.m.repoStatus = msg.status
                      /\ r.m.selectedIndex >= 0
                      /\ r.m.selectedIndex <= Max(0, getCurrentFileCount(r.m) - 1)

\* the refreshMsg has been applied and its refresh has read the gateway: the
\* lists shown hold an optimistic move (no output of the gateway gives them),
\* and the cursor is beyond the list the statusMsg under way brings
C29_Witness ==
    /\ Running /\ ~sm.repoStatus.isNil
    /\ sm.isLoading /\ sm.loadingMsg = "Refreshing status..."
    /\ \A out \in PorcelainOutputs : sm.repoStatus # GetRepositoryStatus(out)
    /\ \E msg \in BagToSet(smMsgs) :
          /\ msg.type = "statusMsg" /\ ~msg.status.isNil
          /\ sm.selectedIndex > Max(0, getCurrentFileCount([sm EXCEPT !.repoStatus = msg.status]) - 1)

\* C32: once every command has run and every message has been applied (the
\* loadingMsg and the statusMsg of a refresh key among them, in either
\* order), isLoading is false.
C32_LoadingCleared ==
    (Running /\ InFlight(smCmds, smMsgs) = 0) => ~sm.isLoading

\* a diffMsg is under way, or a showFileDiff command that yields one, and
\* Update would answer it by showing the diff
DiffUnderWay ==
    \/ \E msg \in BagToSet(smMsgs) :
          msg.type = "diffMsg" /\ Update(sm, msg).m.showDiff
    \/ \E c \in BagToSet(smCmds), ok \in BOOLEAN :
          /\ c.kind = "showFileDiff"
          /\ \E i \in 1..Len(RunCmd(c, StatusOf(c, sm), ok, <<>>)) :
                LET msg == RunCmd(c, StatusOf(c, sm), ok, <<>>)[i]
                IN  msg.type = "diffMsg" /\ Update(sm, msg).m.showDiff

\* C34: when the cancel key closes the diff (the only step that takes the
\* dashboard out of Diff mode), nothing that is still under way from an
\* earlier open-item key press will show a diff again.
C34_ClosedDiffStaysClosed ==
    [][(sm.showDiff /\ ~sm'.showDiff) => ~DiffUnderWay']_vars

\* the path stageFile or unstageFile, run now on the status of dashboard m,
\* completes for; <<>> when its guard stops it or the gateway refuses
HandedFile(c, m) ==
    LET out == RunCmd(c, StatusOf(c, m), TRUE, <<>>)
    IN  IF out # <<>> /\ out[1].type = "fileStatusUpdateMsg" THEN out[1].path ELSE <<>>

\* C36: the file a stage or unstage command will hand to the gateway does
\* not change between the key press that dispatched it (when it is the file
\* under the cursor) and its execution: no step that leaves the command
\* pending gives it another file.
C36_FileOfThePress ==
    [][\A c \in BagToSet(smCmds) \cap BagToSet(smCmds') :
          (c.kind \in {"stageFile", "unstageFile"} /\ HandedFile(c, sm') # <<>>) =>
              HandedFile(c, sm') = HandedFile(c, sm)]_vars

-----------------------------------------------------------------------------
(* Claims about the Search mode of the dashboard, checked under            *)
(* SpecSearchMode                                                          *)

\* C31: in every reachable state searchSelected is less than
\* len(filteredIndices), or 0 when there are no results; and every key that
\* changes the value of the search input while Search mode stays on (the
\* filter is then recomputed for the new value) leaves searchSelected at 0.
C31_SearchSelectedInResults ==
    /\ ~crashed =>
          /\ sm.searchSelected >= 0
          /\ IF Len(sm.filteredIndices) = 0
             THEN sm.searchSelected = 0
             ELSE sm.searchSelected < Len(sm.filteredIndices)
    /\ (Running /\ sm.showSearch) =>
          \A key \in SearchModeKeys \ {"/"} :
             LET r == Update(sm, KeyMsg(key))
             IN  (~r.panic /\ r.m.showSearch /\ r.m.searchInput # sm.searchInput) =>
                    /\ r.m.searchQuery = r.m.searchInput
                    /\ r.m.searchSelected = 0

\* the second of two results is selected
C31_Witness ==
    /\ Running /\ sm.showSearch
    /\ Len(sm.filteredIndices) = 2
    /\ sm.searchSelected = 1

\* C35: in Search mode with a query that is not empty and a status loaded,
\* every index of filteredIndices is within the active panel's list, and
\* filteredIndices is what performSearch gives for that list and the query.
C35_FilterOfCurrentList ==
    (Running /\ sm.showSearch /\ sm.searchQuery # <<>> /\ ~sm.repoStatus.isNil) =>
        /\ \A i \in 1..Len(sm.filteredIndices) :
              sm.filteredIndices[i] < getCurrentFileCount(sm)
        /\ sm.filteredIndices = smPerformSearch(sm).m.filteredIndices

\* C38: in Search mode (and no diff shown) Update answers j and down by
\* searchSelected + 1 and k and up by searchSelected - 1, modulo the number
\* of results when there are any, with the same query, the same search input
\* and the same filtered results.
C38_NavigationKeepsQuery ==
    (Running /\ sm.showSearch /\ ~sm.showDiff /\ ~sm.showCommit) =>
        \A key \in {"j", "down", "k", "up"} :
           LET r == Update(sm, KeyMsg(key))
               n == Len(sm.filteredIndices)
               d == IF key \in {"j", "down"} THEN 1 ELSE n - 1
           IN  /\ ~r.panic
               /\ r.m.searchQuery = sm.searchQuery
               /\ r.m.searchInput = sm.searchInput
               /\ r.m.filteredIndices = sm.filteredIndices
               /\ n > 0 => r.m.searchSelected = (sm.searchSelected + d) % n

-----------------------------------------------------------------------------
(* FilePickerModel (src/internal/ui/conflict_resolver.go:507-1175) and the  *)
(* DiffViewerModel it embeds (src/unnamed/part_003)                         *)

\* A Go map[string]bool: a function from its keys to BOOLEAN
EmptyMap == [p \in {} |-> TRUE]

\* m[p]: false for a missing key
MapGet(mp, p) == p \in DOMAIN mp /\ mp[p]

\* m[p] = v
MapSet(mp, p, v) == [x \in (DOMAIN mp) \cup {p} |-> IF x = p THEN v ELSE mp[x]]

\* the addresses of the maps the picker can hold at one time
MapIds == {1, 2, 3}

\* make(map[string]bool) assigned to m.selectedFiles: a map no other field
\* of m points to
NewMapId(m) == CHOOSE id \in MapIds : id \notin {m.stagedSelections, m.unstagedSelections}

\* maps nothing points to any more are gone
Collect(m, h) ==
    [id \in MapIds |->
        IF id \in {m.selectedFiles, m.stagedSelections, m.unstagedSelections}
        THEN h[id] ELSE EmptyMap]

\* getSelectedFiles: the keys whose value is true (Go iterates a map in no
\* particular order; only the set and its size are used)
getSelectedFiles(m, h) == {p \in DOMAIN h[m.selectedFiles] : h[m.selectedFiles][p]}

\* NewDiffViewerModel, with diffViewer.staged as the picker sets it
NewDiffViewerModel(filePath, staged) ==
    [filePath |-> filePath, staged |-> staged, content |-> NoDiff, err |-> FALSE,
     ready |-> FALSE, vpWidth |-> 0, vpHeight |-> 0]

\* A picker message: one record shape for every message type
FMsg(type) ==
    [type |-> type, text |-> "", width |-> 0, height |-> 0, success |-> FALSE,
     operation |-> "", files |-> {}, stagedFiles |-> <<>>, unstagedFiles |-> <<>>,
     err |-> FALSE, content |-> NoDiff]

FKeyMsg(key) == [FMsg("KeyMsg") EXCEPT !.text = key]

WindowSizeMsg(w, h) == [FMsg("WindowSizeMsg") EXCEPT !.width = w, !.height = h]

GitOperationCompleteMsg(success, operation, files) ==
    [FMsg("GitOperationCompleteMsg") EXCEPT !.success = success, !.err = ~success,
                                            !.operation = operation, !.files = files]

StatusRefreshMsg(staged, unstaged, err) ==
    [FMsg("StatusRefreshMsg") EXCEPT !.stagedFiles = staged,
                                     !.unstagedFiles = unstaged, !.err = err]

ClearStatusMsg == FMsg("ClearStatusMsg")

diffLoadedMsg(content, err) ==
    [FMsg("diffLoadedMsg") EXCEPT !.content = content, !.err = err]

\* A picker command: what the closure captured when it was built
FCmd(kind) ==
    [kind |-> kind, files |-> {}, restore |-> FALSE, staged |-> FALSE, path |-> <<>>]

\* what Update returns: the model, the maps, the commands
FRet(m, h, cmds) == [m |-> m, h |-> h, cmds |-> cmds, panic |-> FALSE]

\* NewFilePicker
NewFilePicker(stagedFileStatuses, unstagedFileStatuses, startInStaged) ==
    LET active == IF startInStaged THEN stagedFileStatuses ELSE unstagedFileStatuses
    IN  [files                |-> Paths(active),
         fileStatuses         |-> active,
         stagedFileStatuses   |-> stagedFileStatuses,
         unstagedFileStatuses |-> unstagedFileStatuses,
         selectedFiles        |-> 1,
         stagedSelections     |-> 2,
         unstagedSelections   |-> 3,
         operationInProgress  |-> FALSE,
         lastOperationStatus  |-> [kind |-> "", action |-> "", n |-> 0],
         showStatusMessage    |-> FALSE,
         currentIndex         |-> 0,
         mode                 |-> "NormalMode",
         searchInput          |-> <<>>,
         searchQuery          |-> <<>>,
         filteredIndices      |-> <<>>,
         searchSelected       |-> 0,
         quitting             |-> FALSE,
         confirmed            |-> FALSE,
         width                |-> 0,
         height               |-> 0,
         removing             |-> FALSE,
         staged               |-> startInStaged,
         scrollOffset         |-> 0,
         visibleLines         |-> 0,
         diffViewer           |-> NewDiffViewerModel(<<>>, FALSE)]

\* the texts of lastOperationStatus, by the format string that builds them
OkStatus(action, n) == [kind |-> "ok", action |-> action, n |-> n]

ErrorStatus == [kind |-> "error", action |-> "", n |-> 0]

RefreshFailedStatus == [kind |-> "refresh failed", action |-> "", n |-> 0]

CannotStageStatus == [kind |-> "cannot stage staged", action |-> "", n |-> 0]

\* adjustScrolling without the test against the end of the list
adjustScrolling_noEnd(m) ==
    IF m.visibleLines <= 0 THEN m
    ELSE LET o1 == IF m.currentIndex >= m.scrollOffset + m.visibleLines
                   THEN m.currentIndex - m.visibleLines + 1
                   ELSE m.scrollOffset
             o2 == IF m.currentIndex < o1 THEN m.currentIndex ELSE o1
         IN  [m EXCEPT !.scrollOffset = IF o2 < 0 THEN 0 ELSE o2]

\* adjustScrolling of the FilePickerModel; the BranchSwitcherModel's
\* (src/unnamed/part_002:292-320) and the one of src/internal/ui/filepicker.go
\* (399-427) are the same statements over their own lists
adjustScrolling(m) ==
    IF m.visibleLines <= 0 THEN m
    ELSE LET o1 == IF m.currentIndex >= m.scrollOffset + m.visibleLines
                   THEN m.currentIndex - m.visibleLines + 1
                   ELSE m.scrollOffset
             o2 == IF m.currentIndex < o1 THEN m.currentIndex ELSE o1
             maxOffset == Max(Len(m.files) - m.visibleLines, 0)
             o3 == IF o2 > maxOffset THEN maxOffset ELSE o2
         IN  [m EXCEPT !.scrollOffset = IF o3 < 0 THEN 0 ELSE o3]

\* FilePickerModel.performSearch: the filter over m.files
fpPerformSearch(m) ==
    [m EXCEPT !.filteredIndices = performSearch(m.files, m.searchQuery).filteredIndices,
              !.searchSelected = performSearch(m.files, m.searchQuery).searchSelected]

\* the diff viewer keeping the content of a diffLoadedMsg and not its error
DiffViewerUpdate_dropErr(dv, msg) ==
    IF msg.type = "diffLoadedMsg"
    THEN [dv |-> [dv EXCEPT !.content = msg.content], cmds |-> <<>>]
    ELSE [dv |-> dv, cmds |-> <<>>]

\* DiffViewerModel.Update: the viewer and the commands it returns.  The
\* scroll keys move the viewport of the bubbles library only.
DiffViewerUpdate(dv, msg) ==
    CASE msg.type = "WindowSizeMsg" ->
           [dv |-> [dv EXCEPT !.ready = TRUE, !.vpWidth = msg.width - 2,
                              !.vpHeight = msg.height - 4],
            cmds |-> <<>>]
      [] msg.type = "diffLoadedMsg" ->
           [dv |-> [dv EXCEPT !.content = msg.content, !.err = msg.err], cmds |-> <<>>]
      [] msg.type = "KeyMsg" /\ msg.text \in {"q", "esc"} ->
           [dv |-> dv, cmds |-> <<FCmd("Quit")>>]
      [] OTHER -> [dv |-> dv, cmds |-> <<>>]

FPanic(m, h) == [m |-> m, h |-> h, cmds |-> <<>>, panic |-> TRUE]

\* the file list of the panel m.staged names, after a refresh or a tab
ShowPanel(m) ==
    LET active == IF m.staged THEN m.stagedFileStatuses ELSE m.unstagedFileStatuses
    IN  [m EXCEPT !.fileStatuses = active,
                  !.selectedFiles = IF m.staged THEN m.stagedSelections
                                    ELSE m.unstagedSelections,
                  !.files = Paths(active)]

\* the enter key only ever selecting the file under the cursor
FpKeyEnter_selectOnly(m, h) ==
    IF Len(m.files) > 0 /\ m.currentIndex < Len(m.files)
    THEN FRet(m, [h EXCEPT ![m.selectedFiles] = MapSet(@, m.files[m.currentIndex + 1], TRUE)],
              <<>>)
    ELSE FRet(m, h, <<>>)

\* case "enter": toggle the file under the cursor
FpKeyEnter(m, h) ==
    IF Len(m.files) > 0
    THEN IF m.currentIndex >= Len(m.files) THEN FPanic(m, h)
         ELSE LET file == m.files[m.currentIndex + 1]
              IN  FRet(m, [h EXCEPT ![m.selectedFiles] = MapSet(@, file, ~MapGet(@, file))],
                       <<>>)
    ELSE FRet(m, h, <<>>)

\* case "c", "ctrl+enter": stage the selected files
FpKeyC(m, h) ==
    IF m.operationInProgress \/ getSelectedFiles(m, h) = {} THEN FRet(m, h, <<>>)
    ELSE IF m.staged
    THEN FRet([m EXCEPT !.lastOperationStatus = CannotStageStatus,
                        !.showStatusMessage = TRUE],
              h, <<FCmd("clearStatusAfterDelay")>>)
    ELSE LET id == NewMapId(m)
         IN  FRet([m EXCEPT !.operationInProgress = TRUE, !.selectedFiles = id],
                  [h EXCEPT ![id] = EmptyMap],
                  <<[FCmd("performGitOperation") EXCEPT
                        !.files = getSelectedFiles(m, h), !.restore = FALSE,
                        !.staged = m.staged]>>)

\* the restore key without the test on a pending operation
FpKeyR_noPendingTest(m, h) ==
    IF getSelectedFiles(m, h) = {} THEN FRet(m, h, <<>>)
    ELSE LET id == NewMapId(m)
         IN  FRet([m EXCEPT !.operationInProgress = TRUE, !.selectedFiles = id],
                  [h EXCEPT ![id] = EmptyMap],
                  <<[FCmd("performGitOperation") EXCEPT
                        !.files = getSelectedFiles(m, h), !.restore = TRUE,
                        !.staged = m.staged]>>)

\* case "r": restore the selected files
FpKeyR(m, h) ==
    IF m.operationInProgress \/ getSelectedFiles(m, h) = {} THEN FRet(m, h, <<>>)
    ELSE LET id == NewMapId(m)
         IN  FRet([m EXCEPT !.operationInProgress = TRUE, !.selectedFiles = id],
                  [h EXCEPT ![id] = EmptyMap],
                  <<[FCmd("performGitOperation") EXCEPT
                        !.files = getSelectedFiles(m, h), !.restore = TRUE,
                        !.staged = m.staged]>>)

\* case "/"
FpKeySlash(m, h) == FRet([m EXCEPT !.mode = "SearchMode", !.searchInput = <<>>], h, <<>>)

\* case "j", "down"
FpKeyJ(m, h) ==
    IF Len(m.files) > 0
    THEN FRet(adjustScrolling([m EXCEPT !.currentIndex = (m.currentIndex + 1) % Len(m.files)]),
              h, <<>>)
    ELSE FRet(m, h, <<>>)

\* case "k", "up"
FpKeyK(m, h) ==
    IF Len(m.files) > 0
    THEN FRet(adjustScrolling([m EXCEPT !.currentIndex =
                                 (m.currentIndex - 1 + Len(m.files)) % Len(m.files)]),
              h, <<>>)
    ELSE FRet(m, h, <<>>)

\* case "g"
FpKeyG(m, h) == FRet([m EXCEPT !.currentIndex = 0, !.scrollOffset = 0], h, <<>>)

\* case "G"
FpKeyShiftG(m, h) ==
    IF Len(m.files) > 0
    THEN FRet(adjustScrolling([m EXCEPT !.currentIndex = Len(m.files) - 1]), h, <<>>)
    ELSE FRet(m, h, <<>>)

\* case " ": open the diff viewer on the file under the cursor
FpKeySpace(m, h) ==
    IF Len(m.files) > 0
    THEN IF m.currentIndex >= Len(m.files) THEN FPanic(m, h)
         ELSE LET filePath == m.files[m.currentIndex + 1]
                  dv == NewDiffViewerModel(filePath, m.staged)
                  load == [FCmd("loadDiff") EXCEPT !.path = filePath, !.staged = m.staged]
                  sized == IF m.width > 0 /\ m.height > 0
                           THEN DiffViewerUpdate(dv, WindowSizeMsg(m.width, m.height))
                           ELSE [dv |-> dv, cmds |-> <<>>]
              IN  FRet([m EXCEPT !.diffViewer = sized.dv, !.mode = "DiffMode"], h,
                       <<load>> \o sized.cmds)
    ELSE FRet(m, h, <<>>)

\* case "a": select all files
FpKeyA(m, h) ==
    LET files == {m.files[i] : i \in 1..Len(m.files)}
    IN  FRet(m, [h EXCEPT ![m.selectedFiles] =
                    [x \in (DOMAIN @) \cup files |-> IF x \in files THEN TRUE ELSE @[x]]],
             <<>>)

\* case "tab": switch between the unstaged and the staged panel
\* the tab key keeping one selection map for both panels
FpKeyTab_oneMap(m, h) ==
    IF ~m.operationInProgress
    THEN LET saved == [m EXCEPT !.stagedSelections = m.selectedFiles,
                                !.unstagedSelections = m.selectedFiles]
             other == [saved EXCEPT !.showStatusMessage = FALSE, !.staged = ~m.staged]
         IN  FRet([ShowPanel(other) EXCEPT !.currentIndex = 0, !.scrollOffset = 0], h, <<>>)
    ELSE FRet(m, h, <<>>)

FpKeyTab(m, h) ==
    IF ~m.operationInProgress
    THEN LET saved == IF m.staged
                      THEN [m EXCEPT !.stagedSelections = m.selectedFiles]
                      ELSE [m EXCEPT !.unstagedSelections = m.selectedFiles]
             other == [saved EXCEPT !.showStatusMessage = FALSE, !.staged = ~m.staged]
         IN  FRet([ShowPanel(other) EXCEPT !.currentIndex = 0, !.scrollOffset = 0], h, <<>>)
    ELSE FRet(m, h, <<>>)

\* case "A": deselect all files
FpKeyShiftA(m, h) ==
    LET id == NewMapId(m)
    IN  FRet([m EXCEPT !.selectedFiles = id], [h EXCEPT ![id] = EmptyMap], <<>>)

FpKeys == {"q", "ctrl+c", "esc", "enter", "c", "ctrl+enter", "r", "/", "j", "down",
           "k", "up", "g", "G", " ", "a", "tab", "A", "backspace"}

\* case tea.KeyMsg of Update, reached in Normal mode only
FpUpdateKey(m, h, key) ==
    IF m.quitting THEN FRet(m, h, <<FCmd("Quit")>>)
    ELSE CASE key \in {"q", "ctrl+c", "esc"} ->
                FRet([m EXCEPT !.quitting = TRUE], h, <<FCmd("Quit")>>)
           [] key = "enter" -> FpKeyEnter(m, h)
           [] key \in {"c", "ctrl+enter"} -> FpKeyC(m, h)
           [] key = "r" -> FpKeyR(m, h)
           [] key = "/" -> FpKeySlash(m, h)
           [] key \in {"j", "down"} -> FpKeyJ(m, h)
           [] key \in {"k", "up"} -> FpKeyK(m, h)
           [] key = "g" -> FpKeyG(m, h)
           [] key = "G" -> FpKeyShiftG(m, h)
           [] key = " " -> FpKeySpace(m, h)
           [] key = "a" -> FpKeyA(m, h)
           [] key = "tab" -> FpKeyTab(m, h)
           [] key = "A" -> FpKeyShiftA(m, h)
           [] OTHER -> FRet(m, h, <<>>)

\* case tea.WindowSizeMsg
FpUpdateWindowSize(m, h, msg) ==
    FRet([m EXCEPT !.width = msg.width, !.height = msg.height,
                   !.visibleLines = msg.height - 6],
         h, <<>>)

\* case GitOperationCompleteMsg
FpUpdateComplete(m, h, msg) ==
    IF msg.success
    THEN LET action == IF msg.operation = "restore"
                       THEN (IF m.staged THEN "restored from staging" ELSE "discarded")
                       ELSE "staged"
         IN  FRet([m EXCEPT !.operationInProgress = FALSE,
                            !.lastOperationStatus = OkStatus(action, Cardinality(msg.files)),
                            !.showStatusMessage = TRUE],
                  h, <<FCmd("refreshRepositoryStatus"), FCmd("clearStatusAfterDelay")>>)
    ELSE FRet([m EXCEPT !.operationInProgress = FALSE,
                        !.lastOperationStatus = ErrorStatus,
                        !.showStatusMessage = TRUE],
              h, <<FCmd("clearStatusAfterDelay")>>)

\* case StatusRefreshMsg
FpUpdateRefresh(m, h, msg) ==
    IF msg.err
    THEN FRet([m EXCEPT !.lastOperationStatus = RefreshFailedStatus,
                        !.showStatusMessage = TRUE],
              h, <<FCmd("clearStatusAfterDelay")>>)
    ELSE LET m1 == ShowPanel([m EXCEPT !.stagedFileStatuses = msg.stagedFiles,
                                       !.unstagedFileStatuses = msg.unstagedFiles])
             m2 == IF m1.currentIndex >= Len(m1.files)
                   THEN [m1 EXCEPT !.currentIndex = IF Len(m1.files) > 0
                                                    THEN Len(m1.files) - 1 ELSE 0]
                   ELSE m1
         IN  FRet(adjustScrolling(m2), h, <<>>)

\* FilePickerModel.Update
FpUpdate(m, h, msg) ==
    IF m.mode = "DiffMode"
    THEN IF msg.type = "KeyMsg" /\ msg.text \in {"esc", "q"}
         THEN FRet([m EXCEPT !.mode = "NormalMode"], h, <<>>)
         ELSE LET r == DiffViewerUpdate(m.diffViewer, msg)
              IN  FRet([m EXCEPT !.diffViewer = r.dv], h, r.cmds)
    ELSE IF m.mode = "SearchMode"
    THEN IF msg.type = "KeyMsg" /\ msg.text = "esc"
         THEN FRet([m EXCEPT !.mode = "NormalMode"], h, <<>>)
         ELSE LET v == TextInputUpdate(m.searchInput, msg)
              IN  IF v # m.searchInput
                  THEN FRet(fpPerformSearch([m EXCEPT !.searchInput = v, !.searchQuery = v]),
                            h, <<>>)
                  ELSE FRet(m, h, <<>>)
    ELSE CASE msg.type = "WindowSizeMsg" -> FpUpdateWindowSize(m, h, msg)
           [] msg.type = "GitOperationCompleteMsg" -> FpUpdateComplete(m, h, msg)
           [] msg.type = "StatusRefreshMsg" -> FpUpdateRefresh(m, h, msg)
           [] msg.type = "ClearStatusMsg" ->
                FRet([m EXCEPT !.showStatusMessage = FALSE], h, <<>>)
           [] msg.type = "KeyMsg" -> FpUpdateKey(m, h, msg.text)
           [] OTHER -> FRet(m, h, <<>>)

-----------------------------------------------------------------------------
(* The picker's commands and the bubbletea runtime around it *)

\* The outputs of `git status --porcelain=v1` while the picker is open
PickerOutputs ==
    { << Line(" ", "M", <<"a">>), Line(" ", "M", <<"b">>), Line("?", "?", <<"c">>) >>,
      << Line("M", " ", <<"a">>), Line(" ", "M", <<"b">>) >> }

\* the terminal sizes a tea.WindowSizeMsg reports
Heights == {7, 8}

Widths == {80}

\* performGitOperation
performGitOperation(c, ok) ==
    GitOperationCompleteMsg(ok, IF c.restore THEN "restore" ELSE "stage", c.files)

\* refreshRepositoryStatus
refreshRepositoryStatus(ok, out) ==
    IF ok
    THEN StatusRefreshMsg(GetFileStatuses(out).staged, GetFileStatuses(out).unstaged, FALSE)
    ELSE StatusRefreshMsg(<<>>, <<>>, TRUE)

\* DiffViewerModel.loadDiff
loadDiff(c, ok) ==
    IF ok THEN diffLoadedMsg(Diff("file", c.path, c.staged), FALSE)
    ELSE diffLoadedMsg(NoDiff, TRUE)

FpRunCmd(c, ok, out) ==
    CASE c.kind = "performGitOperation"     -> performGitOperation(c, ok)
      [] c.kind = "refreshRepositoryStatus" -> refreshRepositoryStatus(ok, out)
      [] c.kind = "clearStatusAfterDelay"   -> ClearStatusMsg
      [] c.kind = "loadDiff"                -> loadDiff(c, ok)

\* tea.Quit has not been returned
FpRunning ==
    /\ ~crashed
    /\ ~fp.quitting
    /\ \A c \in BagToSet(fpCmds) : c.kind # "Quit"

\* One call of Update by the event loop
FpStep(msg, msgs) ==
    LET r == FpUpdate(fp, fpHeap, msg)
    IN  /\ Len(r.m.searchInput) <= MaxInput
        /\ InFlight(fpCmds, msgs) + Len(r.cmds) <= MaxInFlight
        /\ crashed' = r.panic
        /\ fp' = r.m
        /\ fpHeap' = Collect(r.m, r.h)
        /\ fpCmds' = fpCmds (+) SeqToBag(r.cmds)
        /\ fpMsgs' = msgs

FpPress(key) ==
    /\ FpRunning
    /\ keys < MaxKeys
    /\ keys' = keys + 1
    /\ FpStep(FKeyMsg(key), fpMsgs)
    /\ UNCHANGED <<smVars, flVars, bs, lastKey>>

\* the terminal is resized (or reports its size at start)
FpResize ==
    /\ FpRunning
    /\ \E w \in Widths, h \in Heights : FpStep(WindowSizeMsg(w, h), fpMsgs)
    /\ UNCHANGED <<keys, smVars, flVars, bs, lastKey>>

\* A goroutine runs a dispatched command and queues its message.
FpRunCommand ==
    /\ FpRunning
    /\ \E c \in BagToSet(fpCmds), ok \in BOOLEAN :
       \E out \in IF c.kind = "refreshRepositoryStatus" /\ ok
                  THEN PickerOutputs ELSE {<<>>} :
          /\ fpMsgs' = fpMsgs (+) SetToBag({FpRunCmd(c, ok, out)})
          /\ fpCmds' = fpCmds (-) SetToBag({c})
    /\ UNCHANGED <<fp, fpHeap, crashed, keys, smVars, flVars, bs, lastKey>>

\* The event loop takes a queued message and calls Update with it.
FpDeliver(type) ==
    /\ FpRunning
    /\ \E msg \in BagToSet(fpMsgs) :
          /\ msg.type = type
          /\ FpStep(msg, fpMsgs (-) SetToBag({msg}))
    /\ UNCHANGED <<keys, smVars, flVars, bs, lastKey>>

\* the message types a command of the picker can produce
FMsgTypes == {"GitOperationCompleteMsg", "StatusRefreshMsg", "ClearStatusMsg",
              "diffLoadedMsg"}

\* SelectFiles: tea.NewProgram(NewFilePicker(...)).Run() on lists that are not
\* both empty.  Init() returns textinput.Blink only, whose message changes no
\* field of the model.
FpInit ==
    /\ \E out \in PickerOutputs, startInStaged \in BOOLEAN :
          fp = NewFilePicker(GetFileStatuses(out).staged, GetFileStatuses(out).unstaged,
                             startInStaged)
    /\ fpHeap = [id \in MapIds |-> EmptyMap]
    /\ fpCmds = EmptyBag
    /\ fpMsgs = EmptyBag

FpNext ==
    \/ \E key \in FpKeys : FpPress(key)
    \/ FpResize
    \/ FpRunCommand
    \/ \E type \in FMsgTypes : FpDeliver(type)

SmOff == sm = 0 /\ smCmds = 0 /\ smMsgs = 0

PickerInit == SmOff /\ crashed = FALSE /\ keys = 0 /\ FpInit /\ FlIdle /\ lastKey = "" /\ bs = 0

SpecPicker == PickerInit /\ [][FpNext]_vars

-----------------------------------------------------------------------------
(* Claims about the FilePickerModel, checked under SpecPicker *)

\* C2: in the picker, once the terminal has reported its size, in every
\* reachable state 0 <= scrollOffset <= max(0, len(files) - visibleLines),
\* and whenever the list is not empty the cursor is inside the window:
\* scrollOffset <= currentIndex < scrollOffset + visibleLines.
C2_ScrollWindow ==
    fp.height > 0 =>
        /\ 0 <= fp.scrollOffset
        /\ fp.scrollOffset <= Max(0, Len(fp.files) - fp.visibleLines)
        /\ Len(fp.files) > 0 =>
              /\ fp.scrollOffset <= fp.currentIndex
              /\ fp.currentIndex < fp.scrollOffset + fp.visibleLines

\* C6: an operation is never left in progress once its command has run and
\* its GitOperationCompleteMsg has been delivered: while operationInProgress
\* is true, the command or its completion message is still outstanding.
C6_ClearedOnCompletion ==
    fp.operationInProgress =>
        \/ \E c \in BagToSet(fpCmds) : c.kind = "performGitOperation"
        \/ \E msg \in BagToSet(fpMsgs) : msg.type = "GitOperationCompleteMsg"

\* the keys that close the diff view of the picker
CancelKeys == {"esc", "q"}

SelectedIn(h, id) == {p \in DOMAIN h[id] : h[id][p]}

\* the selection map of the panel that is not shown
OtherSelections(m) == IF m.staged THEN m.unstagedSelections ELSE m.stagedSelections

\* the keys of the picker that select or deselect
SelectKeys == {"enter", "a", "A"}

\* C15: the two panels of the picker keep selection sets of their own: Tab to
\* the other panel and Tab back shows the first panel with the set of selected
\* paths it had, and a key that selects or deselects in the panel shown leaves
\* the set of the other panel as it was.
C15_PanelSelectionsApart ==
    (FpRunning /\ fp.mode = "NormalMode") =>
      /\ LET there == FpUpdate(fp, fpHeap, FKeyMsg("tab"))
             back == FpUpdate(there.m, there.h, FKeyMsg("tab"))
         IN  /\ ~fp.operationInProgress => there.m.staged # fp.staged
             /\ back.m.staged = fp.staged
             /\ getSelectedFiles(back.m, back.h) = getSelectedFiles(fp, fpHeap)
      /\ \A key \in SelectKeys :
            LET r == FpUpdate(fp, fpHeap, FKeyMsg(key))
            IN  /\ OtherSelections(r.m) = OtherSelections(fp)
                /\ SelectedIn(r.h, OtherSelections(r.m)) = SelectedIn(fpHeap, OtherSelections(fp))

\* after a Tab each panel holds a selection, and the two differ
C15_Witness ==
    /\ FpRunning /\ fp.mode = "NormalMode" /\ ~fp.operationInProgress
    /\ getSelectedFiles(fp, fpHeap) # {}
    /\ SelectedIn(fpHeap, OtherSelections(fp)) # {}
    /\ SelectedIn(fpHeap, OtherSelections(fp)) # getSelectedFiles(fp, fpHeap)

\* C16: for every item of the panel shown and the selection the picker holds,
\* one toggle of the item changes its membership in the set getSelectedFiles
\* returns and nothing else, and a second toggle of the same item gives back
\* the set as it was before the first.
C16_ToggleTwice ==
    (FpRunning /\ fp.mode = "NormalMode") =>
      \A i \in 0..(Len(fp.files) - 1) :
         LET m0 == [fp EXCEPT !.currentIndex = i]
             file == fp.files[i + 1]
             before == getSelectedFiles(m0, fpHeap)
             once == FpUpdate(m0, fpHeap, FKeyMsg("enter"))
             twice == FpUpdate(once.m, once.h, FKeyMsg("enter"))
         IN  /\ getSelectedFiles(once.m, once.h)
                  = IF file \in before THEN before \ {file} ELSE before \cup {file}
             /\ getSelectedFiles(twice.m, twice.h) = before
             /\ ~once.panic /\ ~twice.panic

\* one file of a panel of several has been toggled twice: the map holds its
\* key alone, with the value false, and getSelectedFiles returns no path
C16_Witness ==
    /\ FpRunning /\ fp.mode = "NormalMode"
    /\ Len(fp.files) > 1
    /\ \E p \in DOMAIN fpHeap[fp.selectedFiles] :
          /\ DOMAIN fpHeap[fp.selectedFiles] = {p}
          /\ ~fpHeap[fp.selectedFiles][p]
          /\ \E i \in 1..Len(fp.files) : fp.files[i] = p
    /\ getSelectedFiles(fp, fpHeap) = {}

\* C23: the cancel key in Search mode of the picker returns to Normal mode
\* with the query empty, no filtered indices and searchSelected 0, and leaves
\* the file lists, the panel shown and the cursor as they were.
C23_CancelClearsSearch ==
    (FpRunning /\ fp.mode = "SearchMode") =>
       LET r == FpUpdate(fp, fpHeap, FKeyMsg("esc"))
       IN  /\ r.m.mode = "NormalMode"
           /\ r.m.searchQuery = <<>>
           /\ r.m.filteredIndices = <<>>
           /\ r.m.searchSelected = 0
           /\ r.m.files = fp.files /\ r.m.fileStatuses = fp.fileStatuses
           /\ r.m.staged = fp.staged /\ r.m.currentIndex = fp.currentIndex

\* the keys that ask the picker to stage, to restore, or to show the other
\* panel
RequestKeys == {"c", "ctrl+enter", "r", "tab"}

\* the number of stage or restore commands that are running
OperationsRunning ==
    BagCardinality([c \in {x \in BagToSet(fpCmds) : x.kind = "performGitOperation"}
                       |-> fpCmds[c]])

\* C25: while an operation of the picker is pending, Update answers a stage
\* key, a restore key and the panel toggle with no command, the same
\* selection and the same panel; and never more than one stage or restore
\* command is running.
C25_OnePendingOperation ==
    /\ OperationsRunning <= 1
    /\ (FpRunning /\ fp.operationInProgress) =>
          \A key \in RequestKeys :
             LET r == FpUpdate(fp, fpHeap, FKeyMsg(key))
             IN  /\ r.cmds = <<>>
                 /\ r.m.operationInProgress
                 /\ r.m.selectedFiles = fp.selectedFiles
                 /\ getSelectedFiles(r.m, r.h) = getSelectedFiles(fp, fpHeap)
                 /\ r.m.staged = fp.staged

\* a stage or restore command is running, the picker is in Normal mode, and
\* files have been selected since it was dispatched
C25_Witness ==
    /\ FpRunning /\ fp.mode = "NormalMode"
    /\ fp.operationInProgress
    /\ OperationsRunning = 1
    /\ getSelectedFiles(fp, fpHeap) # {}

\* C33: whenever the picker shows a diff, the content its diff viewer holds,
\* if any, was loaded for the viewer's own file and side.
C33_DiffOfViewedFile ==
    (FpRunning /\ fp.mode = "DiffMode" /\ fp.diffViewer.content # NoDiff) =>
        /\ fp.diffViewer.content.path = fp.diffViewer.filePath
        /\ fp.diffViewer.content.staged = fp.diffViewer.staged

\* C37: every path getSelectedFiles reports is a path of the list the picker
\* shows.
C37_SelectedAreListed ==
    FpRunning =>
        getSelectedFiles(fp, fpHeap) \subseteq {fp.files[i] : i \in 1..Len(fp.files)}

\* the clear timers that are running or have fired and wait for delivery
ClearsPending ==
    BagCardinality([c \in {x \in BagToSet(fpCmds) : x.kind = "clearStatusAfterDelay"}
                       |-> fpCmds[c]])
    + BagCardinality([msg \in {x \in BagToSet(fpMsgs) : x.type = "ClearStatusMsg"}
                         |-> fpMsgs[msg]])

\* C40: while a status message of the picker is shown, no clear timer but
\* its own is pending; and Update answers every ClearStatusMsg, in whatever
\* mode it arrives, by hiding the message.
C40_OwnTimerHides ==
    FpRunning =>
        /\ fp.showStatusMessage => ClearsPending <= 1
        /\ \A msg \in BagToSet(fpMsgs) :
              msg.type = "ClearStatusMsg" =>
                 ~FpUpdate(fp, fpHeap, msg).m.showStatusMessage

-----------------------------------------------------------------------------
(* The fuzzy filter on its own: performSearch applied to a list and a query *)

\* characters of the items and of the queries
ItemChars == {"a", "B"}

QueryChars == {"a", "b", "B"}

\* the file names of the worked example
ReadmeList ==
    << <<"R","E","A","D","M","E",".","m","d">>,
       <<"m","a","i","n",".","g","o">>,
       <<"r","e","m","o","t","e",".","g","o">> >>

RmoQuery == <<"r", "m", "o">>

ItemLists == SeqsUpTo(SeqsUpTo(ItemChars, MaxItemLen), MaxItems) \cup {ReadmeList}

Queries == SeqsUpTo(QueryChars, MaxQueryLen) \cup {RmoQuery}

NotSearched == [done |-> FALSE, filteredIndices |-> <<>>, searchSelected |-> 0]

\* m.files / the active panel's names and m.searchQuery before performSearch
FlInit ==
    /\ items \in ItemLists
    /\ query \in Queries
    /\ found = NotSearched

\* m.performSearch()
Search ==
    /\ ~found.done
    /\ found' = [done |-> TRUE,
                 filteredIndices |-> performSearch(items, query).filteredIndices,
                 searchSelected |-> performSearch(items, query).searchSelected]
    /\ UNCHANGED <<items, query, smVars, crashed, keys, fpVars, lastKey, bs>>

SearchInit == SmOff /\ crashed = FALSE /\ keys = 0 /\ FpIdle /\ FlInit /\ lastKey = "" /\ bs = 0

SpecSearch == SearchInit /\ [][Search]_vars

\* q is a subsequence of t: its characters occur in t at strictly increasing
\* positions
IsSubsequence(q, t) ==
    \E f \in [1..Len(q) -> 1..Len(t)] :
        /\ \A k \in 1..Len(q) : t[f[k]] = q[k]
        /\ \A j, k \in 1..Len(q) : j < k => f[j] < f[k]

\* C8: for a non-empty query performSearch yields exactly the indices, in
\* increasing order, of the items whose lower-cased text has the lower-cased
\* query as a subsequence.
C8_ExactlyTheSubsequenceMatches ==
    (found.done /\ query # <<>>) =>
        LET r == found.filteredIndices
        IN  /\ \A k \in 1..Len(r) : r[k] \in 0..(Len(items) - 1)
            /\ \A j, k \in 1..Len(r) : j < k => r[j] < r[k]
            /\ \A i \in 0..(Len(items) - 1) :
                  (\E k \in 1..Len(r) : r[k] = i)
                    <=> IsSubsequence(ToLower(query), ToLower(items[i + 1]))

\* a search that keeps the second of two items through case folding and
\* drops the first
C8_Witness ==
    /\ found.done
    /\ query = <<"a", "b">>
    /\ items = << <<"B", "a">>, <<"a", "B">> >>
    /\ found.filteredIndices = <<1>>

\* C9 as stated: filtering README.md, main.go, remote.go with "rmo" returns
\* README.md and remote.go (indices 0 and 2) and not main.go.
C9_ReadmeAndRemote ==
    (found.done /\ items = ReadmeList /\ query = RmoQuery) =>
        found.filteredIndices = <<0, 2>>

\* C9 amended: filtering README.md, main.go, remote.go with "rmo" returns
\* remote.go alone (index 2); README.md and main.go are not matched.
C9_OnlyRemote ==
    (found.done /\ items = ReadmeList /\ query = RmoQuery) =>
        found.filteredIndices = <<2>>

C9_Witness ==
    /\ found.done
    /\ items = ReadmeList
    /\ query = RmoQuery
    /\ Len(found.filteredIndices) = 1

\* C10 as stated: with an empty query the filter yields all indices of the
\* list in original order.
C10_EmptyQueryAll ==
    (found.done /\ query = <<>>) =>
        found.filteredIndices = Indices(Len(items))

\* C10 amended: with an empty query the filter yields no index at all and
\* resets the selected result to 0, whatever the list.
C10_EmptyQueryNone ==
    (found.done /\ query = <<>>) =>
        /\ found.filteredIndices = <<>>
        /\ found.searchSelected = 0

C10_Witness ==
    /\ found.done
    /\ query = <<>>
    /\ Len(items) = MaxItems
    /\ found.filteredIndices = <<>>

-----------------------------------------------------------------------------
(* adjustScrolling on its own: a list model with any cursor inside the     *)
(* list, any scroll offset and any positive number of visible lines, and   *)
(* calls of adjustScrolling on it.                                         *)

\* longest list
MaxScrollFiles == 4
\* largest scroll offset before the call
MaxScrollOffset == 5
\* most visible lines
MaxVisibleLines == 4
\* most calls in a row
MaxAdjusts == 2

ScrollFiles(total) == [i \in 1..total |-> <<"a">>]

ScrollInit ==
    /\ SmOff /\ crashed = FALSE /\ keys = 0 /\ FlIdle /\ lastKey = "" /\ bs = 0
    /\ fpHeap = 0 /\ fpCmds = 0 /\ fpMsgs = 0
    /\ \E total \in 1..MaxScrollFiles, visibleLines \in 1..MaxVisibleLines,
          scrollOffset \in 0..MaxScrollOffset :
       \E currentIndex \in 0..(total - 1) :
          fp = [NewFilePicker(<<>>, <<>>, FALSE) EXCEPT
                   !.files = ScrollFiles(total),
                   !.currentIndex = currentIndex,
                   !.scrollOffset = scrollOffset,
                   !.visibleLines = visibleLines]

\* m.adjustScrolling()
Adjust ==
    /\ keys < MaxAdjusts
    /\ keys' = keys + 1
    /\ fp' = adjustScrolling(fp)
    /\ UNCHANGED <<smVars, crashed, fpHeap, fpCmds, fpMsgs, flVars, bs, lastKey>>

SpecScroll == ScrollInit /\ [][Adjust]_vars

\* C30: a call of adjustScrolling with visibleLines > 0, a list that is not
\* empty, the cursor inside the list and scrollOffset >= 0 changes the scroll
\* offset only; the new offset is currentIndex - visibleLines + 1 when the
\* cursor was at or beyond the end of the window, currentIndex when it was
\* before the window and the old offset otherwise, brought into
\* 0 .. max(0, total - visibleLines); and the cursor is then inside
\* [scrollOffset, scrollOffset + visibleLines).
C30_AdjustScrolling ==
    [][ ( /\ keys' = keys + 1
          /\ fp.visibleLines > 0 /\ Len(fp.files) > 0
          /\ 0 <= fp.currentIndex /\ fp.currentIndex < Len(fp.files)
          /\ fp.scrollOffset >= 0 ) =>
        LET cur == fp.currentIndex
            vis == fp.visibleLines
            moved == IF cur >= fp.scrollOffset + vis THEN cur - vis + 1
                     ELSE IF cur < fp.scrollOffset THEN cur
                     ELSE fp.scrollOffset
            last == Max(0, Len(fp.files) - vis)
        IN  /\ fp' = [fp EXCEPT !.scrollOffset = Max(0, Min(moved, last))]
            /\ fp'.scrollOffset <= cur
            /\ cur < fp'.scrollOffset + vis ]_vars

\* after a call on a list longer than the window: the window is the last
\* full one and the cursor is inside it, below its first line
C30_Witness ==
    /\ keys = 1
    /\ Len(fp.files) > fp.visibleLines
    /\ fp.scrollOffset = Len(fp.files) - fp.visibleLines
    /\ fp.currentIndex > fp.scrollOffset
    /\ fp.currentIndex < fp.scrollOffset + fp.visibleLines

-----------------------------------------------------------------------------
(* BranchSwitcherModel (src/unnamed/part_002).  Update calls the gateway   *)
(* itself when the open-item key is pressed; what the gateway answers is   *)
(* an input of the key press.  width and height are stored and never read. *)

\* the branch lists GetAllBranches returns (nil after an error)
BranchLists ==
    { <<>>, << <<"a">> >>, << <<"a">>, <<"b">> >>, << <<"a">>, <<"b">>, <<"a", "b">> >> }

\* NewBranchBranchSwitcherModel; quit is set once Update has returned tea.Quit
NewBranchSwitcherModel(branches) ==
    [mode            |-> "NormalMode",
     scrollOffset    |-> 0,
     visibleLines    |-> 0,
     currentIndex    |-> 0,
     branches        |-> branches,
     searchInput     |-> <<>>,
     searchQuery     |-> <<>>,
     filteredIndices |-> <<>>,
     searchSelected  |-> 0,
     quit            |-> FALSE]

\* what IsClean, Stash and SwitchBranch answer to one open-item key press
GatewayAnswers ==
    [isClean : {"error", "clean", "dirty"}, stashOk : BOOLEAN, switchOk : BOOLEAN]

NoAnswer == [isClean |-> "error", stashOk |-> FALSE, switchOk |-> FALSE]

\* what Update returns: the model and whether it panicked
BRet(m) == [m |-> m, panic |-> FALSE]

\* BranchSwitcherModel.adjustScrolling
bsAdjustScrolling(m) ==
    IF m.visibleLines <= 0 THEN m
    ELSE LET o1 == IF m.currentIndex >= m.scrollOffset + m.visibleLines
                   THEN m.currentIndex - m.visibleLines + 1
                   ELSE m.scrollOffset
             o2 == IF m.currentIndex < o1 THEN m.currentIndex ELSE o1
             maxOffset == Max(Len(m.branches) - m.visibleLines, 0)
             o3 == IF o2 > maxOffset THEN maxOffset ELSE o2
         IN  [m EXCEPT !.scrollOffset = IF o3 < 0 THEN 0 ELSE o3]

\* BranchSwitcherModel.performSearch
bsPerformSearch(m) ==
    [m EXCEPT !.filteredIndices = performSearch(m.branches, m.searchQuery).filteredIndices,
              !.searchSelected = performSearch(m.branches, m.searchQuery).searchSelected]

\* case "j"
BsKeyJ(m) ==
    IF Len(m.branches) > 0
    THEN bsAdjustScrolling([m EXCEPT !.currentIndex =
                                       (m.currentIndex + 1) % Len(m.branches)])
    ELSE m

\* case "k"
BsKeyK(m) ==
    IF Len(m.branches) > 0
    THEN bsAdjustScrolling([m EXCEPT !.currentIndex =
                               (m.currentIndex - 1 + Len(m.branches)) % Len(m.branches)])
    ELSE m

\* case "enter": IsClean, then m.branches[m.currentIndex], Stash on a dirty
\* tree, SwitchBranch; tea.Quit after a switch, `return m, nil` after an error
BsKeyEnter(m, gw) ==
    IF gw.isClean = "error" THEN BRet(m)
    ELSE IF m.currentIndex >= Len(m.branches) THEN [m |-> m, panic |-> TRUE]
    ELSE IF gw.isClean = "dirty" /\ ~gw.stashOk THEN BRet(m)
    ELSE IF ~gw.switchOk THEN BRet(m)
    ELSE BRet([m EXCEPT !.quit = TRUE])

\* the switch on the message type at the end of Update
BsUpdateMain(m, msg, gw) ==
    IF msg.type = "WindowSizeMsg"
    THEN BRet([m EXCEPT !.visibleLines = msg.height - 6])
    ELSE IF msg.type # "KeyMsg" THEN BRet(m)
    ELSE CASE msg.text \in {"q", "esc"} -> BRet([m EXCEPT !.quit = TRUE])
           [] msg.text = "j" -> BRet(BsKeyJ(m))
           [] msg.text = "k" -> BRet(BsKeyK(m))
           [] msg.text = "enter" -> BsKeyEnter(m, gw)
           [] msg.text = "/" -> BRet([m EXCEPT !.mode = "SearchMode", !.searchInput = <<>>])
           [] OTHER -> BRet(m)

\* the block for SearchResultsMode: its j and k cases do not return, so the
\* switch at the end of Update sees the same message again
BsUpdateResults(m, msg, gw) ==
    IF msg.type = "KeyMsg" /\ msg.text = "j" THEN BsUpdateMain(BsKeyJ(m), msg, gw)
    ELSE IF msg.type = "KeyMsg" /\ msg.text = "k" THEN BsUpdateMain(BsKeyK(m), msg, gw)
    ELSE IF msg.type = "KeyMsg" /\ msg.text = "enter" THEN BsKeyEnter(m, gw)
    ELSE BsUpdateMain(m, msg, gw)

\* BranchSwitcherModel.Update
BsUpdate(m, msg, gw) ==
    IF m.mode = "SearchMode"
    THEN IF msg.type = "KeyMsg" /\ msg.text = "esc"
         THEN BRet([m EXCEPT !.mode = "NormalMode"])
         ELSE IF msg.type = "KeyMsg" /\ msg.text = "enter"
         THEN BRet([m EXCEPT !.mode = "SearchResultsMode"])
         ELSE LET v == TextInputUpdate(m.searchInput, msg)
              IN  IF v # m.searchInput
                  THEN BRet(bsPerformSearch([m EXCEPT !.searchInput = v, !.searchQuery = v]))
                  ELSE BRet(m)
    ELSE IF m.mode = "SearchResultsMode" THEN BsUpdateResults(m, msg, gw)
    ELSE BsUpdateMain(m, msg, gw)

BsKeys == {"q", "esc", "j", "k", "enter", "/", "a", "backspace"}

\* most keys pressed in one run of the branch switcher
MaxBranchKeys == 4

BsRunning == ~crashed /\ ~bs.quit

\* One call of Update by the event loop
BsStep(msg, gw) ==
    LET r == BsUpdate(bs, msg, gw)
    IN  /\ Len(r.m.searchInput) <= MaxInput
        /\ crashed' = r.panic
        /\ bs' = r.m

\* A key press; the open-item key with the answers of the gateway
BsPress(key) ==
    /\ BsRunning
    /\ keys < MaxBranchKeys
    /\ keys' = keys + 1
    /\ \E gw \in IF key = "enter" THEN GatewayAnswers ELSE {NoAnswer} :
          BsStep(FKeyMsg(key), gw)
    /\ UNCHANGED <<smVars, fpVars, flVars, lastKey>>

\* the terminal is resized (or reports its size at start)
BsResize ==
    /\ BsRunning
    /\ \E w \in Widths, h \in Heights : BsStep(WindowSizeMsg(w, h), NoAnswer)
    /\ UNCHANGED <<keys, smVars, fpVars, flVars, lastKey>>

\* SwitchBranches: tea.NewProgram(NewBranchBranchSwitcherModel(repo, remote)).Run()
BranchInit ==
    /\ SmOff /\ FpIdle /\ FlIdle /\ lastKey = ""
    /\ crashed = FALSE /\ keys = 0
    /\ \E branches \in BranchLists : bs = NewBranchSwitcherModel(branches)

BranchNext ==
    \/ \E key \in BsKeys : BsPress(key)
    \/ BsResize

SpecBranch == BranchInit /\ [][BranchNext]_vars

\* C39: in Normal mode and in SearchResults mode, with a list that is not
\* empty, Update answers j with currentIndex + 1 and k with currentIndex - 1
\* modulo the number of branches, and with the scroll offset adjustScrolling
\* gives for that cursor.
C39_OneStepPerKey ==
    (BsRunning /\ bs.mode \in {"NormalMode", "SearchResultsMode"}
               /\ Len(bs.branches) > 0) =>
        LET n == Len(bs.branches)
            down == BsUpdate(bs, FKeyMsg("j"), NoAnswer)
            up == BsUpdate(bs, FKeyMsg("k"), NoAnswer)
        IN  /\ down.m = bsAdjustScrolling([bs EXCEPT !.currentIndex =
                                                       (bs.currentIndex + 1) % n])
            /\ up.m = bsAdjustScrolling([bs EXCEPT !.currentIndex =
                                                     (bs.currentIndex - 1 + n) % n])

=============================================================================
